---- MODULE Spec2Model ----
(***************************************************************************)
(* Declaration-attribute semantic analysis (clang/lib/Sema/SemaDeclAttr.cpp) *)
(* modelled as a state machine: one declaration D with its attribute list,  *)
(* and one action per parsed attribute handed to ProcessDeclAttribute.      *)
(***************************************************************************)
EXTENDS Integers, Sequences, FiniteSets, TLC

VARIABLES
  lang,    \* LangOptions: "SYCLDevice", "SYCLHost" or "OpenCL" (neither SYCL flag)
  decl,    \* category of the declaration D
  attrs,   \* D's attribute list (Decl::getAttrs), in attachment order
  pre,     \* D's attribute list before the last processed attribute
  last,    \* the last processed attribute: kind, arguments, diagnostics emitted
  steps    \* number of parsed attributes processed so far

vars == <<lang, decl, attrs, pre, last, steps>>

\* Number of parsed attributes processed on the declaration.
MaxOps == 3

(***************************************************************************)
(* Expressions.  An attribute argument is a null pointer (unspecified      *)
(* optional argument), a value-dependent expression, an integer literal as *)
(* written, a substituted template argument, or a ConstantExpr produced by *)
(* VerifyIntegerConstantExpression.                                        *)
(***************************************************************************)
NullExpr == [k |-> "null", v |-> 0]
DepExpr  == [k |-> "dep", v |-> 0]
Lit(n)   == [k |-> "lit", v |-> n]
\* A value-dependent expression after substitution of the template argument n.
Subst(n) == [k |-> "subst", v |-> n]
ConstantExpr(n) == [k |-> "ce", v |-> n]
EnumArg(n) == [k |-> "enum", v |-> n]

isNull(E) == E.k = "null"
isValueDependent(E) == E.k = "dep"
isConstantExpr(E) == E.k = "ce"

\* VerifyIntegerConstantExpression on an integer literal: wraps its value
\* in a ConstantExpr.
VerifyIntegerConstantExpression(E) == ConstantExpr(E.v)

RECURSIVE isPowerOf2(_)
isPowerOf2(n) ==
  IF n <= 0 THEN FALSE
  ELSE IF n = 1 THEN TRUE
  ELSE n % 2 = 0 /\ isPowerOf2(n \div 2)

RECURSIVE Pow2(_)
Pow2(n) == IF n = 0 THEN 1 ELSE 2 * Pow2(n - 1)

\* Width in bits of int and of the APInt that holds a synthesized num_banks.
IntWidth == 32
\* The least value of int, whose bit pattern is that of 2^(IntWidth - 1).
IntMin == (0 - Pow2(IntWidth - 2)) - Pow2(IntWidth - 2)

\* APInt::ceilLogBase2: the least k with 2^k >= n, the bits of n read as an
\* unsigned number (a negative n stands for a value of 2^(IntWidth - 1) or
\* more); IntWidth for 0.
RECURSIVE ceilLogBase2From(_, _)
ceilLogBase2From(n, k) == IF Pow2(k) >= n THEN k ELSE ceilLogBase2From(n, k + 1)
ceilLogBase2(n) ==
  IF n = 0 THEN IntWidth
  ELSE IF n = IntMin THEN IntWidth - 1
  ELSE IF n < 0 THEN IntWidth
  ELSE ceilLogBase2From(n, 0)

(***************************************************************************)
(* Attributes and the declaration's attribute list.                        *)
(***************************************************************************)
Attr(K, A, I) == [kind |-> K, args |-> A, str |-> "", implicit |-> I]
StrAttr(K, S) == [kind |-> K, args |-> <<>>, str |-> S, implicit |-> FALSE]
NoAttr == Attr("none", <<>>, FALSE)

RECURSIVE firstOf(_, _, _)
firstOf(D, K, i) ==
  IF i > Len(D) THEN NoAttr
  ELSE IF D[i].kind = K THEN D[i]
  ELSE firstOf(D, K, i + 1)

hasAttr(D, K) == \E i \in 1..Len(D) : D[i].kind = K
getAttr(D, K) == firstOf(D, K, 1)
addAttr(D, A) == Append(D, A)
dropAttr(D, K) == SelectSeq(D, LAMBDA a : a.kind # K)
countAttr(D, K) == Cardinality({i \in 1..Len(D) : D[i].kind = K})
countExplicit(D, K) ==
  Cardinality({i \in 1..Len(D) : D[i].kind = K /\ ~D[i].implicit})

\* Result of a handler: the declaration's attributes and the diagnostics.
Res(D, dg) == [attrs |-> D, diags |-> dg]

isNote(d) == d \in {"note_previous_attribute", "note_conflicting_attribute"}
primaryCount(dg) == Cardinality({i \in 1..Len(dg) : ~isNote(dg[i])})

SYCLIsDevice == lang = "SYCLDevice"
SYCLIsHost == lang = "SYCLHost"

\* SYCLIntelMemoryAttr::Default, the kind of an [[intel::fpga_memory]]
\* written without argument and of the implicit one.
MemDefault == 0

\* SYCLIntelMemoryAttr::ConvertStrToMemoryKind: the kind named by the string
\* argument, or -1 when the string names none.
ConvertStrToMemoryKind(Str) ==
  CASE Str = "MLAB" -> 1
    [] Str = "BLOCK_RAM" -> 2
    [] OTHER -> -1

\* SYCLIntelMemoryAttr::CreateImplicit(Context, SYCLIntelMemoryAttr::Default)
ImplicitMemory == Attr("fpga_memory", <<EnumArg(MemDefault)>>, TRUE)

(***************************************************************************)
(* FPGA memory attributes on variables.                                    *)
(***************************************************************************)

\* Returns TRUE if an error occurred: D is a VarDecl that is neither const,
\* static, local, constant-address-space nor device_global.  A ParmVarDecl
\* has local storage; a FieldDecl is not a VarDecl.
CheckValidFPGAMemoryAttributesVar == decl = "GlobalVar"

\* Variant: the implicit default memory is not dropped when the user's
\* attribute is added.
handleSYCLIntelMemoryAttr_KeepsImplicit(D, Arg) ==
  LET Kind == IF Arg = "" THEN MemDefault ELSE ConvertStrToMemoryKind(Arg)
      MA == getAttr(D, "fpga_memory")
  IN IF Kind = -1 THEN Res(D, <<"err_intel_fpga_memory_arg_invalid">>)
     ELSE IF hasAttr(D, "fpga_memory") /\ ~MA.implicit THEN
       IF MA.args[1].v # Kind
       THEN Res(D, <<"warn_duplicate_attribute", "note_previous_attribute">>)
       ELSE Res(D, <<>>)
     ELSE IF SYCLIsDevice /\ CheckValidFPGAMemoryAttributesVar
     THEN Res(D, <<"err_fpga_attribute_incorrect_variable">>)
     ELSE Res(addAttr(D, Attr("fpga_memory", <<EnumArg(Kind)>>, FALSE)), <<>>)

\* [[intel::fpga_memory]]: Arg is "" for no argument, else the string.
handleSYCLIntelMemoryAttr(D, Arg) ==
  LET Kind == IF Arg = "" THEN MemDefault ELSE ConvertStrToMemoryKind(Arg)
      MA == getAttr(D, "fpga_memory")
      D1 == IF hasAttr(D, "fpga_memory") THEN dropAttr(D, "fpga_memory") ELSE D
  IN IF Kind = -1 THEN Res(D, <<"err_intel_fpga_memory_arg_invalid">>)
     ELSE IF hasAttr(D, "fpga_memory") /\ ~MA.implicit THEN
       IF MA.args[1].v # Kind
       THEN Res(D, <<"warn_duplicate_attribute", "note_previous_attribute">>)
       ELSE Res(D, <<>>)
     ELSE IF SYCLIsDevice /\ CheckValidFPGAMemoryAttributesVar
     THEN Res(D1, <<"err_fpga_attribute_incorrect_variable">>)
     ELSE Res(addAttr(D1, Attr("fpga_memory", <<EnumArg(Kind)>>, FALSE)), <<>>)

\* [[intel::fpga_register]]
handleSYCLIntelRegisterAttr(D) ==
  IF hasAttr(D, "fpga_register") /\ ~getAttr(D, "fpga_register").implicit
  THEN Res(D, <<"warn_duplicate_attribute_exact", "note_previous_attribute">>)
  ELSE IF SYCLIsDevice /\ (decl = "ParmVar" \/ CheckValidFPGAMemoryAttributesVar)
  THEN Res(D, <<"err_fpga_attribute_incorrect_variable">>)
  ELSE Res(addAttr(D, Attr("fpga_register", <<>>, FALSE)), <<>>)

\* The tail shared by the memory sub-attributes: create the implicit default
\* [[intel::fpga_memory]] when D has none.
withImplicitMemory(D) ==
  IF ~hasAttr(D, "fpga_memory") THEN addAttr(D, ImplicitMemory) ELSE D

\* Variant: the positivity check is applied to value-dependent arguments too.
AddSYCLIntelBankWidthAttr_ChecksDependent(D, E) ==
  LET DeclAttr == getAttr(D, "bank_width")
      E1 == IF isValueDependent(E) THEN E ELSE VerifyIntegerConstantExpression(E)
  IN IF E.v <= 0
     THEN Res(D, <<"err_attribute_requires_positive_integer">>)
     ELSE IF ~isValueDependent(E) /\ ~isPowerOf2(E.v)
     THEN Res(D, <<"err_attribute_argument_not_power_of_two">>)
     ELSE IF ~isValueDependent(E) /\ SYCLIsDevice
             /\ CheckValidFPGAMemoryAttributesVar
     THEN Res(D, <<"err_fpga_attribute_incorrect_variable">>)
     ELSE IF ~isValueDependent(E) /\ hasAttr(D, "bank_width")
             /\ isConstantExpr(DeclAttr.args[1])
     THEN IF E.v # DeclAttr.args[1].v
          THEN Res(D, <<"warn_duplicate_attribute", "note_previous_attribute">>)
          ELSE Res(D, <<>>)
     ELSE Res(addAttr(withImplicitMemory(D), Attr("bank_width", <<E1>>, FALSE)),
            <<>>)

\* [[intel::bankwidth(E)]]
AddSYCLIntelBankWidthAttr(D, E) ==
  LET DeclAttr == getAttr(D, "bank_width")
      E1 == IF isValueDependent(E) THEN E ELSE VerifyIntegerConstantExpression(E)
  IN IF ~isValueDependent(E) /\ E.v <= 0
     THEN Res(D, <<"err_attribute_requires_positive_integer">>)
     ELSE IF ~isValueDependent(E) /\ ~isPowerOf2(E.v)
     THEN Res(D, <<"err_attribute_argument_not_power_of_two">>)
     ELSE IF ~isValueDependent(E) /\ SYCLIsDevice
             /\ CheckValidFPGAMemoryAttributesVar
     THEN Res(D, <<"err_fpga_attribute_incorrect_variable">>)
     ELSE IF ~isValueDependent(E) /\ hasAttr(D, "bank_width")
             /\ isConstantExpr(DeclAttr.args[1])
     THEN IF E.v # DeclAttr.args[1].v
          THEN Res(D, <<"warn_duplicate_attribute", "note_previous_attribute">>)
          ELSE Res(D, <<>>)
     ELSE Res(addAttr(withImplicitMemory(D), Attr("bank_width", <<E1>>, FALSE)),
            <<>>)

\* Variant: without the power-of-two check.
AddSYCLIntelNumBanksAttr_NoPow2Check(D, E) ==
  LET DeclAttr == getAttr(D, "num_banks")
      BBA == getAttr(D, "bank_bits")
      E1 == IF isValueDependent(E) THEN E ELSE VerifyIntegerConstantExpression(E)
      D1 == withImplicitMemory(D)
      D2 == IF hasAttr(D1, "num_banks") /\ getAttr(D1, "num_banks").implicit
            THEN dropAttr(D1, "num_banks") ELSE D1
  IN IF ~isValueDependent(E) /\ E.v <= 0
     THEN Res(D, <<"err_attribute_requires_positive_integer">>)
     ELSE IF ~isValueDependent(E) /\ hasAttr(D, "bank_bits")
             /\ Len(BBA.args) # ceilLogBase2(E.v)
     THEN Res(D, <<"err_bankbits_numbanks_conflicting">>)
     ELSE IF ~isValueDependent(E) /\ SYCLIsDevice
             /\ CheckValidFPGAMemoryAttributesVar
     THEN Res(D, <<"err_fpga_attribute_incorrect_variable">>)
     ELSE IF ~isValueDependent(E) /\ hasAttr(D, "num_banks")
             /\ isConstantExpr(DeclAttr.args[1])
     THEN IF E.v # DeclAttr.args[1].v
          THEN Res(D, <<"warn_duplicate_attribute", "note_previous_attribute">>)
          ELSE Res(D, <<>>)
     ELSE Res(addAttr(D2, Attr("num_banks", <<E1>>, FALSE)), <<>>)

\* Variant: an attached bank_bits is not compared with the number of banks.
AddSYCLIntelNumBanksAttr_NoBankBitsCheck(D, E) ==
  LET DeclAttr == getAttr(D, "num_banks")
      E1 == IF isValueDependent(E) THEN E ELSE VerifyIntegerConstantExpression(E)
      D1 == withImplicitMemory(D)
      D2 == IF hasAttr(D1, "num_banks") /\ getAttr(D1, "num_banks").implicit
            THEN dropAttr(D1, "num_banks") ELSE D1
  IN IF ~isValueDependent(E) /\ E.v <= 0
     THEN Res(D, <<"err_attribute_requires_positive_integer">>)
     ELSE IF ~isValueDependent(E) /\ ~isPowerOf2(E.v)
     THEN Res(D, <<"err_attribute_argument_not_power_of_two">>)
     ELSE IF ~isValueDependent(E) /\ SYCLIsDevice
             /\ CheckValidFPGAMemoryAttributesVar
     THEN Res(D, <<"err_fpga_attribute_incorrect_variable">>)
     ELSE IF ~isValueDependent(E) /\ hasAttr(D, "num_banks")
             /\ isConstantExpr(DeclAttr.args[1])
     THEN IF E.v # DeclAttr.args[1].v
          THEN Res(D, <<"warn_duplicate_attribute", "note_previous_attribute">>)
          ELSE Res(D, <<>>)
     ELSE Res(addAttr(D2, Attr("num_banks", <<E1>>, FALSE)), <<>>)

\* [[intel::numbanks(E)]]
AddSYCLIntelNumBanksAttr(D, E) ==
  LET DeclAttr == getAttr(D, "num_banks")
      BBA == getAttr(D, "bank_bits")
      E1 == IF isValueDependent(E) THEN E ELSE VerifyIntegerConstantExpression(E)
      D1 == withImplicitMemory(D)
      D2 == IF hasAttr(D1, "num_banks") /\ getAttr(D1, "num_banks").implicit
            THEN dropAttr(D1, "num_banks") ELSE D1
  IN IF ~isValueDependent(E) /\ E.v <= 0
     THEN Res(D, <<"err_attribute_requires_positive_integer">>)
     ELSE IF ~isValueDependent(E) /\ ~isPowerOf2(E.v)
     THEN Res(D, <<"err_attribute_argument_not_power_of_two">>)
     ELSE IF ~isValueDependent(E) /\ hasAttr(D, "bank_bits")
             /\ Len(BBA.args) # ceilLogBase2(E.v)
     THEN Res(D, <<"err_bankbits_numbanks_conflicting">>)
     ELSE IF ~isValueDependent(E) /\ SYCLIsDevice
             /\ CheckValidFPGAMemoryAttributesVar
     THEN Res(D, <<"err_fpga_attribute_incorrect_variable">>)
     ELSE IF ~isValueDependent(E) /\ hasAttr(D, "num_banks")
             /\ isConstantExpr(DeclAttr.args[1])
     THEN IF E.v # DeclAttr.args[1].v
          THEN Res(D, <<"warn_duplicate_attribute", "note_previous_attribute">>)
          ELSE Res(D, <<>>)
     ELSE Res(addAttr(D2, Attr("num_banks", <<E1>>, FALSE)), <<>>)

\* [[intel::max_replicates(E)]]
AddSYCLIntelMaxReplicatesAttr(D, E) ==
  LET DeclAttr == getAttr(D, "max_replicates")
      E1 == IF isValueDependent(E) THEN E ELSE VerifyIntegerConstantExpression(E)
  IN IF ~isValueDependent(E) /\ E.v <= 0
     THEN Res(D, <<"err_attribute_requires_positive_integer">>)
     ELSE IF ~isValueDependent(E) /\ SYCLIsDevice
             /\ CheckValidFPGAMemoryAttributesVar
     THEN Res(D, <<"err_fpga_attribute_incorrect_variable">>)
     ELSE IF ~isValueDependent(E) /\ hasAttr(D, "max_replicates")
             /\ isConstantExpr(DeclAttr.args[1])
     THEN IF E.v # DeclAttr.args[1].v
          THEN Res(D, <<"warn_duplicate_attribute", "note_previous_attribute">>)
          ELSE Res(D, <<>>)
     ELSE Res(addAttr(withImplicitMemory(D), Attr("max_replicates", <<E1>>, FALSE)),
            <<>>)

(***************************************************************************)
(* Redeclaration merge.  A Merge routine is given the declaration and the  *)
(* attribute A inherited from the previous declaration; it returns the     *)
(* attribute to add to the declaration, or a null pointer (NoAttr).        *)
(***************************************************************************)
MergeRes(A, dg) == [add |-> A, diags |-> dg]

MergeSYCLIntelBankWidthAttr(D, A) ==
  LET DeclAttr == getAttr(D, "bank_width")
  IN IF hasAttr(D, "bank_width") /\ isConstantExpr(DeclAttr.args[1])
        /\ isConstantExpr(A.args[1]) /\ DeclAttr.args[1].v # A.args[1].v
     THEN MergeRes(NoAttr, <<"warn_duplicate_attribute", "note_previous_attribute">>)
     ELSE MergeRes(Attr("bank_width", A.args, FALSE), <<>>)

MergeSYCLIntelNumBanksAttr(D, A) ==
  LET DeclAttr == getAttr(D, "num_banks")
  IN IF hasAttr(D, "num_banks") /\ isConstantExpr(DeclAttr.args[1])
        /\ isConstantExpr(A.args[1]) /\ DeclAttr.args[1].v # A.args[1].v
     THEN MergeRes(NoAttr, <<"warn_duplicate_attribute", "note_previous_attribute">>)
     ELSE MergeRes(Attr("num_banks", A.args, FALSE), <<>>)

MergeSYCLIntelMaxReplicatesAttr(D, A) ==
  LET DeclAttr == getAttr(D, "max_replicates")
  IN IF hasAttr(D, "max_replicates") /\ isConstantExpr(DeclAttr.args[1])
        /\ isConstantExpr(A.args[1])
     THEN IF DeclAttr.args[1].v # A.args[1].v
          THEN MergeRes(NoAttr,
                        <<"warn_duplicate_attribute", "note_previous_attribute">>)
          ELSE MergeRes(NoAttr, <<>>)
     ELSE MergeRes(Attr("max_replicates", A.args, FALSE), <<>>)

\* Give a warning for duplicate attributes, return true if duplicate:
\* the diagnostics it emits (the callers below ignore the returned flag).
checkForDuplicateAttribute(D, K) ==
  IF hasAttr(D, K) /\ ~getAttr(D, K).implicit
  THEN <<"warn_duplicate_attribute_exact">>
  ELSE <<>>

\* The converted argument list of bank_bits: literals become ConstantExprs.
RECURSIVE convertBankBits(_)
convertBankBits(Exprs) ==
  IF Exprs = <<>> THEN <<>>
  ELSE <<IF isValueDependent(Head(Exprs)) THEN Head(Exprs)
         ELSE VerifyIntegerConstantExpression(Head(Exprs))>>
       \o convertBankBits(Tail(Exprs))

\* Variant: the number of banks is twice the number of bank bits.
numBanksOfBankBits_Doubles(Size) == 2 * Size

\* (unsigned)(1 << Args.size()) stored in a 32-bit APInt; the lists of the
\* model have fewer than 31 entries, where the shift is exact.
numBanksOfBankBits(Size) == Pow2(Size)

\* Variant: no implicit num_banks is created while the list holds a
\* value-dependent entry.
AddSYCLIntelBankBitsAttr_DefersSynthesis(D, Exprs) ==
  LET Size == Len(Exprs)
      ListIsValueDep == \E i \in 1..Size : isValueDependent(Exprs[i])
      \* index of the first literal that stops the conversion loop, if any
      Negative == \E i \in 1..Size :
                    /\ ~isValueDependent(Exprs[i]) /\ Exprs[i].v < 0
      ListIsAscending == Exprs[1].v < Exprs[2].v
      NonConsecutive ==
        /\ ~ListIsValueDep /\ Size > 1
        /\ \E i \in 1..(Size - 1) :
              Exprs[i + 1].v # Exprs[i].v + (IF ListIsAscending THEN 1 ELSE -1)
      NBA == getAttr(D, "num_banks")
      D1 == IF hasAttr(D, "num_banks") \/ ListIsValueDep THEN D
            ELSE addAttr(D, Attr("num_banks",
                                 <<Lit(numBanksOfBankBits(Size))>>, TRUE))
  IN IF Negative THEN Res(D, <<"err_attribute_requires_positive_integer">>)
     ELSE IF NonConsecutive THEN Res(D, <<"err_bankbits_non_consecutive">>)
     ELSE IF hasAttr(D, "num_banks") /\ ~isValueDependent(NBA.args[1])
             /\ Size # ceilLogBase2(NBA.args[1].v)
     THEN Res(D, <<"err_bankbits_numbanks_conflicting">>)
     ELSE IF SYCLIsDevice /\ CheckValidFPGAMemoryAttributesVar
     THEN Res(D1, <<"err_fpga_attribute_incorrect_variable">>)
     ELSE Res(addAttr(withImplicitMemory(D1),
                    Attr("bank_bits", convertBankBits(Exprs), FALSE)), <<>>)

\* [[intel::bank_bits(Exprs...)]]
AddSYCLIntelBankBitsAttr(D, Exprs) ==
  LET Size == Len(Exprs)
      ListIsValueDep == \E i \in 1..Size : isValueDependent(Exprs[i])
      \* index of the first literal that stops the conversion loop, if any
      Negative == \E i \in 1..Size :
                    /\ ~isValueDependent(Exprs[i]) /\ Exprs[i].v < 0
      ListIsAscending == Exprs[1].v < Exprs[2].v
      NonConsecutive ==
        /\ ~ListIsValueDep /\ Size > 1
        /\ \E i \in 1..(Size - 1) :
              Exprs[i + 1].v # Exprs[i].v + (IF ListIsAscending THEN 1 ELSE -1)
      NBA == getAttr(D, "num_banks")
      D1 == IF hasAttr(D, "num_banks") THEN D
            ELSE addAttr(D, Attr("num_banks",
                                 <<Lit(numBanksOfBankBits(Size))>>, TRUE))
  IN IF Negative THEN Res(D, <<"err_attribute_requires_positive_integer">>)
     ELSE IF NonConsecutive THEN Res(D, <<"err_bankbits_non_consecutive">>)
     ELSE IF hasAttr(D, "num_banks") /\ ~isValueDependent(NBA.args[1])
             /\ Size # ceilLogBase2(NBA.args[1].v)
     THEN Res(D, <<"err_bankbits_numbanks_conflicting">>)
     ELSE IF SYCLIsDevice /\ CheckValidFPGAMemoryAttributesVar
     THEN Res(D1, <<"err_fpga_attribute_incorrect_variable">>)
     ELSE Res(addAttr(withImplicitMemory(D1),
                    Attr("bank_bits", convertBankBits(Exprs), FALSE)), <<>>)

handleSYCLIntelBankBitsAttr(D, Exprs) ==
  LET dup == checkForDuplicateAttribute(D, "bank_bits")
      r == AddSYCLIntelBankBitsAttr(D, Exprs)
  IN IF Len(Exprs) < 1
     THEN Res(D, dup \o <<"err_attribute_too_few_arguments">>)
     ELSE Res(r.attrs, dup \o r.diags)

\* The values 1 << Size can take, Size being the number of entries of the
\* list and 1 an int: exact below IntWidth - 1; at IntWidth - 1 the result
\* converted to int is IntMin; from IntWidth on the shift count reaches the
\* width of int and the behaviour is undefined: the shift instruction gives 1
\* where it takes the count modulo IntWidth and 0 elsewhere.
shiftOutcomes(Size) ==
  IF Size < IntWidth - 1 THEN {Pow2(Size)}
  ELSE IF Size = IntWidth - 1 THEN {IntMin}
  ELSE {0, 1}

\* AddSYCLIntelBankBitsAttr with Num the value (unsigned)(1 << Size) took,
\* read as the int the literal of the implicit num_banks holds.
AddSYCLIntelBankBitsAttrShift(D, Exprs, Num) ==
  LET Size == Len(Exprs)
      ListIsValueDep == \E i \in 1..Size : isValueDependent(Exprs[i])
      Negative == \E i \in 1..Size :
                    /\ ~isValueDependent(Exprs[i]) /\ Exprs[i].v < 0
      ListIsAscending == Exprs[1].v < Exprs[2].v
      NonConsecutive ==
        /\ ~ListIsValueDep /\ Size > 1
        /\ \E i \in 1..(Size - 1) :
              Exprs[i + 1].v # Exprs[i].v + (IF ListIsAscending THEN 1 ELSE -1)
      NBA == getAttr(D, "num_banks")
      D1 == IF hasAttr(D, "num_banks") THEN D
            ELSE addAttr(D, Attr("num_banks", <<Lit(Num)>>, TRUE))
  IN IF Negative THEN Res(D, <<"err_attribute_requires_positive_integer">>)
     ELSE IF NonConsecutive THEN Res(D, <<"err_bankbits_non_consecutive">>)
     ELSE IF hasAttr(D, "num_banks") /\ ~isValueDependent(NBA.args[1])
             /\ Size # ceilLogBase2(NBA.args[1].v)
     THEN Res(D, <<"err_bankbits_numbanks_conflicting">>)
     ELSE IF SYCLIsDevice /\ CheckValidFPGAMemoryAttributesVar
     THEN Res(D1, <<"err_fpga_attribute_incorrect_variable">>)
     ELSE Res(addAttr(withImplicitMemory(D1),
                    Attr("bank_bits", convertBankBits(Exprs), FALSE)), <<>>)

(***************************************************************************)
(* visibility and section.                                                 *)
(***************************************************************************)

\* VisibilityAttr::ConvertStrToVisibilityType, -1 when the string names none.
ConvertStrToVisibilityType(Str) ==
  CASE Str = "default" -> 0
    [] Str = "hidden" -> 1
    [] OTHER -> -1

\* Returns the attributes of D after the merge, the diagnostics and the new
\* attribute to add (NoAttr for a null result).
mergeVisibilityAttr(D, value) ==
  LET existingAttr == getAttr(D, "visibility")
      N == Attr("visibility", <<EnumArg(value)>>, FALSE)
  IN IF hasAttr(D, "visibility") THEN
       IF existingAttr.args[1].v = value
       THEN [attrs |-> D, diags |-> <<>>, new |-> NoAttr]
       ELSE [attrs |-> dropAttr(D, "visibility"),
             diags |-> <<"err_mismatched_visibility", "note_previous_attribute">>,
             new |-> N]
     ELSE [attrs |-> D, diags |-> <<>>, new |-> N]

handleVisibilityAttr(D, Str) ==
  LET type == ConvertStrToVisibilityType(Str)
      m == mergeVisibilityAttr(D, type)
  IN IF type = -1 THEN Res(D, <<"warn_attribute_type_not_supported">>)
     ELSE IF m.new # NoAttr THEN Res(addAttr(m.attrs, m.new), m.diags)
     ELSE Res(m.attrs, m.diags)

\* Variant: a mismatched section is diagnosed but still handed back for
\* attachment.
mergeSectionAttr_AttachesNew(D, Name) ==
  LET ExistingAttr == getAttr(D, "section")
  IN IF hasAttr(D, "section") THEN
       IF ExistingAttr.str = Name
       THEN [attrs |-> D, diags |-> <<>>, new |-> NoAttr]
       ELSE [attrs |-> D,
             diags |-> <<"warn_mismatched_section", "note_previous_attribute">>,
             new |-> StrAttr("section", Name)]
     ELSE [attrs |-> D, diags |-> <<>>, new |-> StrAttr("section", Name)]

mergeSectionAttr(D, Name) ==
  LET ExistingAttr == getAttr(D, "section")
  IN IF hasAttr(D, "section") THEN
       IF ExistingAttr.str = Name
       THEN [attrs |-> D, diags |-> <<>>, new |-> NoAttr]
       ELSE [attrs |-> D,
             diags |-> <<"warn_mismatched_section", "note_previous_attribute">>,
             new |-> NoAttr]
     ELSE [attrs |-> D, diags |-> <<>>, new |-> StrAttr("section", Name)]

handleSectionAttr(D, Str) ==
  LET m == mergeSectionAttr(D, Str)
  IN IF m.new # NoAttr THEN Res(addAttr(m.attrs, m.new), m.diags)
     ELSE Res(m.attrs, m.diags)

(***************************************************************************)
(* Work-group size attributes on functions.                                *)
(***************************************************************************)

\* A value held directly by an attribute as an unsigned integer.
UInt(n) == [k |-> "uint", v |-> n]

\* Handles reqd_work_group_size outside SYCL: Args are integer literals.
handleWorkGroupSize(D, K, Args) ==
  LET Existing == getAttr(D, K)
      zero == \E i \in 1..3 : Args[i].v = 0
      negative(i) == Args[i].v < 0
      firstBad == CHOOSE i \in 1..3 :
                    /\ Args[i].v <= 0
                    /\ \A j \in 1..(i - 1) : Args[j].v > 0
      WGSize == [i \in 1..3 |-> UInt(Args[i].v)]
      dup == IF hasAttr(D, K) /\ ~(/\ Existing.args[1].v = Args[1].v
                                   /\ Existing.args[2].v = Args[2].v
                                   /\ Existing.args[3].v = Args[3].v)
             THEN <<"warn_duplicate_attribute">> ELSE <<>>
  IN IF Len(Args) # 3 THEN Res(D, <<"err_attribute_wrong_number_arguments">>)
     ELSE IF \E i \in 1..3 : Args[i].v <= 0
     THEN IF negative(firstBad)
          THEN Res(D, <<"err_attribute_requires_positive_integer">>)
          ELSE Res(D, <<"err_attribute_argument_is_zero">>)
     ELSE Res(addAttr(D, Attr(K, WGSize, FALSE)), dup)

AreArgValuesIdentical(LHS, RHS) ==
  IF isNull(LHS) /\ isNull(RHS) THEN "Same"
  ELSE IF isNull(LHS) \/ isNull(RHS) THEN "Different"
  ELSE IF ~isConstantExpr(LHS) \/ ~isConstantExpr(RHS) THEN "Unknown"
  ELSE IF LHS.v = RHS.v THEN "Same" ELSE "Different"

\* Variant: reports a difference only when every dimension differs.
AnyWorkGroupSizesDiffer_AllDiffer(LHS, RHS) ==
  \A i \in 1..3 : AreArgValuesIdentical(LHS[i], RHS[i]) = "Different"

\* LHS and RHS are the <<XDim, YDim, ZDim>> of the two attributes.
AnyWorkGroupSizesDiffer(LHS, RHS) ==
  \E i \in 1..3 : AreArgValuesIdentical(LHS[i], RHS[i]) = "Different"

AllWorkGroupSizesSame(LHS, RHS) ==
  \A i \in 1..3 : AreArgValuesIdentical(LHS[i], RHS[i]) = "Same"

InvalidWorkGroupSizeAttrs(MGValue, Dims) ==
  IF ~isConstantExpr(MGValue) \/ ~isConstantExpr(Dims[1]) THEN FALSE
  ELSE IF \/ (~isConstantExpr(Dims[2]) /\ ~isNull(Dims[2]))
          \/ (~isConstantExpr(Dims[3]) /\ ~isNull(Dims[3])) THEN FALSE
  ELSE /\ MGValue.v = 0
       /\ \/ Dims[1].v # 1
          \/ (isConstantExpr(Dims[2]) /\ Dims[2].v # 1)
          \/ (isConstantExpr(Dims[3]) /\ Dims[3].v # 1)

\* RWGS and MWGS are the <<XDim, YDim, ZDim>> of reqd_work_group_size and of
\* max_work_group_size.
CheckMaxAllowedWorkGroupSize(RWGS, MWGS) ==
  LET swapWith == IF ~isNull(RWGS[3]) THEN 3 ELSE 2
      doSwap == SYCLIsDevice /\ ~isNull(RWGS[2])
      First == IF doSwap THEN RWGS[swapWith] ELSE RWGS[1]
      Second == IF doSwap /\ swapWith = 2 THEN RWGS[1] ELSE RWGS[2]
      Third == IF doSwap /\ swapWith = 3 THEN RWGS[1] ELSE RWGS[3]
  IN IF \/ ~isConstantExpr(RWGS[1]) \/ ~isConstantExpr(MWGS[1])
        \/ ~isConstantExpr(MWGS[2]) \/ ~isConstantExpr(MWGS[3]) THEN FALSE
     ELSE IF \/ (~isConstantExpr(RWGS[2]) /\ ~isNull(RWGS[2]))
             \/ (~isConstantExpr(RWGS[3]) /\ ~isNull(RWGS[3])) THEN FALSE
     ELSE \/ First.v > MWGS[3].v
          \/ (~isNull(Second) /\ Second.v > MWGS[2].v)
          \/ (~isNull(Third) /\ Third.v > MWGS[1].v)

CheckWorkGroupSize(NSWIValue, RWGS) ==
  LET Last == IF ~isNull(RWGS[3]) THEN RWGS[3]
              ELSE IF ~isNull(RWGS[2]) THEN RWGS[2] ELSE RWGS[1]
  IN IF ~isConstantExpr(NSWIValue) \/ ~isConstantExpr(RWGS[1]) THEN FALSE
     ELSE IF \/ (~isConstantExpr(RWGS[2]) /\ ~isNull(RWGS[2]))
             \/ (~isConstantExpr(RWGS[3]) /\ ~isNull(RWGS[3])) THEN FALSE
     ELSE Last.v % NSWIValue.v # 0

\* The CheckAndConvertArg lambda of the work-group-size Add routines: the
\* converted expression, and whether it diagnosed.
CheckAndConvertArg(E) ==
  IF isNull(E) \/ isValueDependent(E) THEN E
  ELSE VerifyIntegerConstantExpression(E)
argIsBad(E) == ~isNull(E) /\ ~isValueDependent(E) /\ E.v <= 0

RECURSIVE convertDiags(_)
convertDiags(Dims) ==
  IF Dims = <<>> THEN <<>>
  ELSE (IF argIsBad(Head(Dims))
        THEN <<"err_attribute_requires_positive_integer">> ELSE <<>>)
       \o convertDiags(Tail(Dims))

\* Pads the argument list of an attribute written with 1..3 arguments with
\* null expressions.
padDims(Args) == [i \in 1..3 |-> IF i <= Len(Args) THEN Args[i] ELSE NullExpr]

\* [[sycl::reqd_work_group_size(X, Y, Z)]] in SYCL mode; Args is the padded
\* <<XDim, YDim, ZDim>>.
AddSYCLReqdWorkGroupSizeAttr(D, Args) ==
  LET Dims == [i \in 1..3 |-> CheckAndConvertArg(Args[i])]
      MGWD == getAttr(D, "max_global_work_dim")
      MWGS == getAttr(D, "max_work_group_size")
      NSWI == getAttr(D, "num_simd_work_items")
      Existing == getAttr(D, "reqd_work_group_size")
      \* diagnosed, but the routine goes on
      mg == IF hasAttr(D, "max_global_work_dim")
               /\ InvalidWorkGroupSizeAttrs(MGWD.args[1], Dims)
            THEN <<"err_sycl_x_y_z_arguments_must_be_one">> ELSE <<>>
  IN IF convertDiags(Args) # <<>> THEN Res(D, convertDiags(Args))
     ELSE IF hasAttr(D, "max_work_group_size")
             /\ CheckMaxAllowedWorkGroupSize(Dims, MWGS.args)
     THEN Res(D, mg \o <<"err_conflicting_sycl_function_attributes",
                         "note_conflicting_attribute">>)
     ELSE IF hasAttr(D, "num_simd_work_items")
             /\ CheckWorkGroupSize(NSWI.args[1], Dims)
     THEN Res(D, mg \o <<"err_sycl_num_kernel_wrong_reqd_wg_size",
                         "note_conflicting_attribute">>)
     ELSE IF hasAttr(D, "reqd_work_group_size")
             /\ AnyWorkGroupSizesDiffer(Dims, Existing.args)
     THEN Res(D, mg \o <<"err_duplicate_attribute", "note_previous_attribute">>)
     ELSE IF hasAttr(D, "reqd_work_group_size")
             /\ AllWorkGroupSizesSame(Dims, Existing.args)
     THEN Res(D, mg)
     ELSE Res(addAttr(D, Attr("reqd_work_group_size", Dims, FALSE)), mg)

handleSYCLReqdWorkGroupSize(D, Args) ==
  IF Len(Args) < 1 THEN Res(D, <<"err_attribute_too_few_arguments">>)
  ELSE IF Len(Args) > 3 THEN Res(D, <<"err_attribute_too_many_arguments">>)
  ELSE AddSYCLReqdWorkGroupSizeAttr(D, padDims(Args))

handleReqdWorkGroupSize(D, Args) ==
  IF SYCLIsDevice \/ SYCLIsHost
  THEN handleSYCLReqdWorkGroupSize(D, Args)
  ELSE handleWorkGroupSize(D, "opencl_reqd_work_group_size", Args)

\* [[intel::max_work_group_size(X, Y, Z)]]
AddSYCLIntelMaxWorkGroupSizeAttr(D, Args) ==
  LET Dims == [i \in 1..3 |-> CheckAndConvertArg(Args[i])]
      RWGS == getAttr(D, "reqd_work_group_size")
      MGWD == getAttr(D, "max_global_work_dim")
      Existing == getAttr(D, "max_work_group_size")
  IN IF convertDiags(Args) # <<>> THEN Res(D, convertDiags(Args))
     ELSE IF hasAttr(D, "reqd_work_group_size")
             /\ CheckMaxAllowedWorkGroupSize(RWGS.args, Dims)
     THEN Res(D, <<"err_conflicting_sycl_function_attributes",
                   "note_conflicting_attribute">>)
     ELSE IF hasAttr(D, "max_global_work_dim")
             /\ InvalidWorkGroupSizeAttrs(MGWD.args[1], Dims)
     THEN Res(D, <<"err_sycl_x_y_z_arguments_must_be_one">>)
     ELSE IF hasAttr(D, "max_work_group_size")
             /\ AnyWorkGroupSizesDiffer(Dims, Existing.args)
     THEN Res(D, <<"warn_duplicate_attribute", "note_previous_attribute">>)
     ELSE IF hasAttr(D, "max_work_group_size")
             /\ AllWorkGroupSizesSame(Dims, Existing.args)
     THEN Res(D, <<>>)
     ELSE Res(addAttr(D, Attr("max_work_group_size", Dims, FALSE)), <<>>)

\* [[intel::num_simd_work_items(E)]]
AddSYCLIntelNumSimdWorkItemsAttr(D, E) ==
  LET DeclAttr == getAttr(D, "num_simd_work_items")
      RWGS == getAttr(D, "reqd_work_group_size")
      E1 == IF isValueDependent(E) THEN E ELSE VerifyIntegerConstantExpression(E)
  IN IF ~isValueDependent(E) /\ E.v <= 0
     THEN Res(D, <<"err_attribute_requires_positive_integer">>)
     ELSE IF ~isValueDependent(E) /\ hasAttr(D, "num_simd_work_items")
             /\ isConstantExpr(DeclAttr.args[1])
     THEN IF E.v # DeclAttr.args[1].v
          THEN Res(D, <<"warn_duplicate_attribute", "note_previous_attribute">>)
          ELSE Res(D, <<>>)
     ELSE IF ~isValueDependent(E) /\ hasAttr(D, "reqd_work_group_size")
             /\ CheckWorkGroupSize(E1, RWGS.args)
     THEN Res(D, <<"err_sycl_num_kernel_wrong_reqd_wg_size",
                   "note_conflicting_attribute">>)
     ELSE Res(addAttr(D, Attr("num_simd_work_items", <<E1>>, FALSE)), <<>>)

\* NotEqualToOne: an argument known to differ from 1 is found before any
\* null or value-dependent argument.
AreAllArgsOne(Args) ==
  LET stop == {i \in 1..3 : ~(isConstantExpr(Args[i]) /\ Args[i].v = 1)}
      first == CHOOSE i \in stop : \A j \in stop : i <= j
  IN IF stop = {} THEN "EqualToOne"
     ELSE IF isNull(Args[first]) THEN "EqualToOne"
     ELSE IF ~isConstantExpr(Args[first]) THEN "Unknown"
     ELSE "NotEqualToOne"

\* Variant: diagnoses only an attribute none of whose arguments is resolved.
checkWorkGroupSizeAttrExpr_NeverKnown(D, K) ==
  /\ hasAttr(D, K) /\ AreAllArgsOne(getAttr(D, K).args) = "Unknown"
  /\ \A i \in 1..3 : ~isConstantExpr(getAttr(D, K).args[i])

\* Returns TRUE if diagnosed.
checkWorkGroupSizeAttrExpr(D, K) ==
  hasAttr(D, K) /\ AreAllArgsOne(getAttr(D, K).args) = "NotEqualToOne"

\* [[intel::max_global_work_dim(E)]]
AddSYCLIntelMaxGlobalWorkDimAttr(D, E) ==
  LET DeclAttr == getAttr(D, "max_global_work_dim")
      E1 == IF isValueDependent(E) THEN E ELSE VerifyIntegerConstantExpression(E)
  IN IF ~isValueDependent(E) /\ (E.v < 0 \/ E.v > 3)
     THEN Res(D, <<"err_attribute_argument_out_of_range">>)
     ELSE IF ~isValueDependent(E) /\ hasAttr(D, "max_global_work_dim")
             /\ isConstantExpr(DeclAttr.args[1])
     THEN IF E.v # DeclAttr.args[1].v
          THEN Res(D, <<"warn_duplicate_attribute", "note_previous_attribute">>)
          ELSE Res(D, <<>>)
     ELSE IF ~isValueDependent(E) /\ E.v = 0
             /\ (\/ checkWorkGroupSizeAttrExpr(D, "max_work_group_size")
                 \/ checkWorkGroupSizeAttrExpr(D, "reqd_work_group_size"))
     THEN Res(D, <<"err_sycl_x_y_z_arguments_must_be_one">>)
     ELSE Res(addAttr(D, Attr("max_global_work_dim", <<E1>>, FALSE)), <<>>)

(***************************************************************************)
(* Merge routines of the work-group-size attributes: A is the attribute    *)
(* inherited from the previous declaration.                                *)
(***************************************************************************)
MergeSYCLIntelMaxWorkGroupSizeAttr(D, A) ==
  LET DeclAttr == getAttr(D, "max_work_group_size")
      RWGS == getAttr(D, "reqd_work_group_size")
      MGWD == getAttr(D, "max_global_work_dim")
  IN IF hasAttr(D, "max_work_group_size")
        /\ AnyWorkGroupSizesDiffer(DeclAttr.args, A.args)
     THEN MergeRes(NoAttr, <<"warn_duplicate_attribute", "note_previous_attribute">>)
     ELSE IF hasAttr(D, "max_work_group_size")
             /\ AllWorkGroupSizesSame(DeclAttr.args, A.args)
     THEN MergeRes(NoAttr, <<>>)
     ELSE IF hasAttr(D, "reqd_work_group_size")
             /\ CheckMaxAllowedWorkGroupSize(RWGS.args, A.args)
     THEN MergeRes(NoAttr, <<"err_conflicting_sycl_function_attributes",
                             "note_conflicting_attribute">>)
     ELSE IF hasAttr(D, "max_global_work_dim")
             /\ InvalidWorkGroupSizeAttrs(MGWD.args[1], A.args)
     THEN MergeRes(NoAttr, <<"err_sycl_x_y_z_arguments_must_be_one">>)
     ELSE MergeRes(Attr("max_work_group_size", A.args, FALSE), <<>>)

MergeSYCLReqdWorkGroupSizeAttr(D, A) ==
  LET MGWD == getAttr(D, "max_global_work_dim")
      MWGS == getAttr(D, "max_work_group_size")
      NSWI == getAttr(D, "num_simd_work_items")
      DeclAttr == getAttr(D, "reqd_work_group_size")
  IN IF hasAttr(D, "max_global_work_dim")
        /\ InvalidWorkGroupSizeAttrs(MGWD.args[1], A.args)
     THEN MergeRes(NoAttr, <<"err_sycl_x_y_z_arguments_must_be_one">>)
     ELSE IF hasAttr(D, "max_work_group_size")
             /\ CheckMaxAllowedWorkGroupSize(A.args, MWGS.args)
     THEN MergeRes(NoAttr, <<"err_conflicting_sycl_function_attributes",
                             "note_conflicting_attribute">>)
     ELSE IF hasAttr(D, "num_simd_work_items")
             /\ CheckWorkGroupSize(NSWI.args[1], A.args)
     THEN MergeRes(NoAttr, <<"err_sycl_num_kernel_wrong_reqd_wg_size",
                             "note_conflicting_attribute">>)
     ELSE IF hasAttr(D, "reqd_work_group_size")
             /\ AnyWorkGroupSizesDiffer(DeclAttr.args, A.args)
     THEN MergeRes(NoAttr, <<"err_duplicate_attribute", "note_previous_attribute">>)
     ELSE IF hasAttr(D, "reqd_work_group_size")
             /\ AllWorkGroupSizesSame(DeclAttr.args, A.args)
     THEN MergeRes(NoAttr, <<>>)
     ELSE MergeRes(Attr("reqd_work_group_size", A.args, FALSE), <<>>)

MergeSYCLIntelMaxGlobalWorkDimAttr(D, A) ==
  LET DeclAttr == getAttr(D, "max_global_work_dim")
  IN IF hasAttr(D, "max_global_work_dim") /\ isConstantExpr(DeclAttr.args[1])
        /\ isConstantExpr(A.args[1])
     THEN IF DeclAttr.args[1].v # A.args[1].v
          THEN MergeRes(NoAttr, <<"warn_duplicate_attribute",
                                  "note_previous_attribute">>)
          ELSE MergeRes(NoAttr, <<>>)
     ELSE IF isConstantExpr(A.args[1]) /\ A.args[1].v = 0
             /\ (\/ checkWorkGroupSizeAttrExpr(D, "max_work_group_size")
                 \/ checkWorkGroupSizeAttrExpr(D, "reqd_work_group_size"))
     THEN MergeRes(NoAttr, <<"err_sycl_x_y_z_arguments_must_be_one">>)
     ELSE MergeRes(Attr("max_global_work_dim", A.args, FALSE), <<>>)

(***************************************************************************)
(* always_inline, minsize and optnone.  A merge routine returns the        *)
(* declaration's attributes after it ran, its diagnostics and the          *)
(* attribute to add (NoAttr for a null result).                            *)
(***************************************************************************)
mergeAlwaysInlineAttr(D) ==
  IF hasAttr(D, "optnone")
  THEN [attrs |-> D,
        diags |-> <<"warn_attribute_ignored", "note_conflicting_attribute">>,
        new |-> NoAttr]
  ELSE IF hasAttr(D, "always_inline")
  THEN [attrs |-> D, diags |-> <<>>, new |-> NoAttr]
  ELSE [attrs |-> D, diags |-> <<>>, new |-> Attr("always_inline", <<>>, FALSE)]

mergeMinSizeAttr(D) ==
  IF hasAttr(D, "optnone")
  THEN [attrs |-> D,
        diags |-> <<"warn_attribute_ignored", "note_conflicting_attribute">>,
        new |-> NoAttr]
  ELSE IF hasAttr(D, "minsize")
  THEN [attrs |-> D, diags |-> <<>>, new |-> NoAttr]
  ELSE [attrs |-> D, diags |-> <<>>, new |-> Attr("minsize", <<>>, FALSE)]

\* Variant: an attached always_inline or minsize is diagnosed but kept.
mergeOptimizeNoneAttr_KeepsOthers(D) ==
  LET dg == (IF hasAttr(D, "always_inline")
             THEN <<"warn_attribute_ignored", "note_conflicting_attribute">>
             ELSE <<>>)
            \o (IF hasAttr(D, "minsize")
                THEN <<"warn_attribute_ignored", "note_conflicting_attribute">>
                ELSE <<>>)
  IN IF hasAttr(D, "optnone")
     THEN [attrs |-> D, diags |-> dg, new |-> NoAttr]
     ELSE [attrs |-> D, diags |-> dg, new |-> Attr("optnone", <<>>, FALSE)]

mergeOptimizeNoneAttr(D) ==
  LET dg == (IF hasAttr(D, "always_inline")
             THEN <<"warn_attribute_ignored", "note_conflicting_attribute">>
             ELSE <<>>)
            \o (IF hasAttr(D, "minsize")
                THEN <<"warn_attribute_ignored", "note_conflicting_attribute">>
                ELSE <<>>)
      D1 == dropAttr(dropAttr(D, "always_inline"), "minsize")
  IN IF hasAttr(D1, "optnone")
     THEN [attrs |-> D1, diags |-> dg, new |-> NoAttr]
     ELSE [attrs |-> D1, diags |-> dg, new |-> Attr("optnone", <<>>, FALSE)]

\* if (Attr *A = merge...(D, AL)) D->addAttr(A);
addMerged(r) ==
  IF r.new = NoAttr THEN Res(r.attrs, r.diags)
  ELSE Res(addAttr(r.attrs, r.new), r.diags)

handleAlwaysInlineAttr(D) == addMerged(mergeAlwaysInlineAttr(D))
handleMinSizeAttr(D) == addMerged(mergeMinSizeAttr(D))
handleOptimizeNoneAttr(D) == addMerged(mergeOptimizeNoneAttr(D))

(***************************************************************************)
(* Further attributes with one integer argument.                           *)
(***************************************************************************)

\* Variant: only negative values are rejected.
AddSYCLIntelForcePow2DepthAttr_NoUpperBound(D, E) ==
  LET DeclAttr == getAttr(D, "force_pow2_depth")
      E1 == IF isValueDependent(E) THEN E
            ELSE VerifyIntegerConstantExpression(E)
  IN IF ~isValueDependent(E) /\ E.v < 0
     THEN Res(D, <<"err_attribute_argument_is_not_valid">>)
     ELSE IF ~isValueDependent(E) /\ SYCLIsDevice
             /\ CheckValidFPGAMemoryAttributesVar
     THEN Res(D, <<"err_fpga_attribute_incorrect_variable">>)
     ELSE IF ~isValueDependent(E) /\ hasAttr(D, "force_pow2_depth")
             /\ isConstantExpr(DeclAttr.args[1])
     THEN IF E.v # DeclAttr.args[1].v
          THEN Res(D, <<"warn_duplicate_attribute", "note_previous_attribute">>)
          ELSE Res(D, <<>>)
     ELSE Res(addAttr(withImplicitMemory(D),
                      Attr("force_pow2_depth", <<E1>>, FALSE)), <<>>)

\* [[intel::force_pow2_depth(E)]]
AddSYCLIntelForcePow2DepthAttr(D, E) ==
  LET DeclAttr == getAttr(D, "force_pow2_depth")
      E1 == IF isValueDependent(E) THEN E
            ELSE VerifyIntegerConstantExpression(E)
  IN IF ~isValueDependent(E) /\ (E.v < 0 \/ E.v > 1)
     THEN Res(D, <<"err_attribute_argument_is_not_valid">>)
     ELSE IF ~isValueDependent(E) /\ SYCLIsDevice
             /\ CheckValidFPGAMemoryAttributesVar
     THEN Res(D, <<"err_fpga_attribute_incorrect_variable">>)
     ELSE IF ~isValueDependent(E) /\ hasAttr(D, "force_pow2_depth")
             /\ isConstantExpr(DeclAttr.args[1])
     THEN IF E.v # DeclAttr.args[1].v
          THEN Res(D, <<"warn_duplicate_attribute", "note_previous_attribute">>)
          ELSE Res(D, <<>>)
     ELSE Res(addAttr(withImplicitMemory(D),
                      Attr("force_pow2_depth", <<E1>>, FALSE)), <<>>)

\* [[intel::sycl_esimd_vectorize(E)]]
AddSYCLIntelESimdVectorizeAttr(D, E) ==
  LET DeclAttr == getAttr(D, "esimd_vectorize")
      E1 == IF isValueDependent(E) THEN E
            ELSE VerifyIntegerConstantExpression(E)
  IN IF ~isValueDependent(E) /\ E.v # 8 /\ E.v # 16 /\ E.v # 32
     THEN Res(D, <<"err_sycl_esimd_vectorize_unsupported_value">>)
     ELSE IF ~isValueDependent(E) /\ hasAttr(D, "esimd_vectorize")
             /\ isConstantExpr(DeclAttr.args[1])
     THEN IF E.v # DeclAttr.args[1].v
          THEN Res(D, <<"warn_duplicate_attribute", "note_previous_attribute">>)
          ELSE Res(D, <<>>)
     ELSE Res(addAttr(D, Attr("esimd_vectorize", <<E1>>, FALSE)), <<>>)

(***************************************************************************)
(* String arguments.  A string argument written as an ordinary string      *)
(* literal is held in the parsed attribute's str field; an argument of     *)
(* another form is held in args as an identifier, a wide string literal or *)
(* an integer literal, its spelling in str.                                *)
(***************************************************************************)
Ident == [k |-> "ident", v |-> 0]
WideString == [k |-> "wstring", v |-> 0]

isArgIdent(AL) == AL.args # <<>> /\ AL.args[1].k = "ident"
isStringLiteral(AL) == AL.args = <<>>

\* Variant: an identifier is diagnosed and the check fails.
checkStringLiteralArgumentAttr_IdentFails(AL) ==
  IF ~isStringLiteral(AL)
  THEN [ok |-> FALSE, Str |-> "", diags |-> <<"err_attribute_argument_type">>]
  ELSE [ok |-> TRUE, Str |-> AL.str, diags |-> <<>>]

\* Check if the argument of AL is an ASCII string literal.  An identifier is
\* diagnosed and then treated as if it was a string literal.
checkStringLiteralArgumentAttr(AL) ==
  IF isArgIdent(AL)
  THEN [ok |-> TRUE, Str |-> AL.str, diags |-> <<"err_attribute_argument_type">>]
  ELSE IF ~isStringLiteral(AL)
  THEN [ok |-> FALSE, Str |-> "", diags |-> <<"err_attribute_argument_type">>]
  ELSE [ok |-> TRUE, Str |-> AL.str, diags |-> <<>>]

(***************************************************************************)
(* Attributes that may be repeated on a function: format, enforce_tcb and  *)
(* enforce_tcb_leaf.  The function has two parameters, the first of them a *)
(* string; it is variadic when decl = "VariadicFunction".                  *)
(***************************************************************************)
getFunctionOrMethodNumParams == 2
paramIsString(Idx) == Idx = 1
isFunctionOrMethodVariadic == decl = "VariadicFunction"

\* Normalize the attribute, __foo__ becomes foo.
normalizeName(AttrName) ==
  CASE AttrName = "__printf__" -> "printf"
    [] OTHER -> AttrName

getFormatAttrKind(Format) ==
  CASE Format = "strftime" -> "StrftimeFormat"
    [] Format \in {"scanf", "printf"} -> "SupportedFormat"
    [] Format = "gcc_diag" -> "IgnoredFormat"
    [] OTHER -> "InvalidFormat"

FormatAttr(Format, FormatIdx, FirstArg) ==
  [kind |-> "format", args |-> <<UInt(FormatIdx), UInt(FirstArg)>>,
   str |-> Format, implicit |-> FALSE]

\* Returns the attribute to add, NoAttr when an equivalent one is present.
mergeFormatAttr(D, Format, FormatIdx, FirstArg) ==
  IF \E i \in 1..Len(D) : D[i] = FormatAttr(Format, FormatIdx, FirstArg)
  THEN NoAttr
  ELSE FormatAttr(Format, FormatIdx, FirstArg)

\* __attribute__((format(type, idx, firstarg)))
handleFormatAttr(D, AL) ==
  LET NumArgs == getFunctionOrMethodNumParams
      Format == normalizeName(AL.str)
      Kind == getFormatAttrKind(Format)
      Idx == AL.args[1].v
      FirstArg == AL.args[2].v
      NewAttr == mergeFormatAttr(D, Format, Idx, FirstArg)
      gcc == IF FirstArg # 0 /\ ~isFunctionOrMethodVariadic
             THEN <<"warn_gcc_requires_variadic_function">> ELSE <<>>
  IN IF Kind = "IgnoredFormat" THEN Res(D, <<>>)
     ELSE IF Kind = "InvalidFormat"
     THEN Res(D, <<"warn_attribute_type_not_supported">>)
     ELSE IF Idx < 1 \/ Idx > NumArgs
     THEN Res(D, <<"err_attribute_argument_out_of_bounds">>)
     ELSE IF ~paramIsString(Idx) THEN Res(D, <<"err_format_attribute_not">>)
     ELSE IF FirstArg # 0 /\ Kind = "StrftimeFormat"
     THEN Res(D, <<"err_format_strftime_third_parameter">>)
     ELSE IF FirstArg # 0 /\ isFunctionOrMethodVariadic /\ FirstArg # NumArgs + 1
     THEN Res(D, <<"err_attribute_argument_out_of_bounds">>)
     ELSE IF FirstArg # 0 /\ ~isFunctionOrMethodVariadic /\ FirstArg <= Idx
     THEN Res(D, gcc \o <<"err_attribute_argument_out_of_bounds">>)
     ELSE IF NewAttr = NoAttr THEN Res(D, gcc)
     ELSE Res(addAttr(D, NewAttr), gcc)

\* The rest of a handler with one string argument, given the string.
stringHandler(D, K, Str) ==
  CASE K = "fpga_memory" -> handleSYCLIntelMemoryAttr(D, Str)
    [] K = "visibility" -> handleVisibilityAttr(D, Str)
    [] K = "section" -> handleSectionAttr(D, Str)

\* The opening of a handler with one string argument: the handler goes on
\* with the string only when the check succeeds.
withStringArgument(D, AL) ==
  LET c == checkStringLiteralArgumentAttr(AL)
      r == stringHandler(D, AL.kind, c.Str)
  IN IF ~c.ok THEN Res(D, c.diags) ELSE Res(r.attrs, c.diags \o r.diags)

findEnforceTCBAttrByName(D, K, Name) ==
  \E i \in 1..Len(D) : D[i].kind = K /\ D[i].str = Name

\* enforce_tcb("name") and enforce_tcb_leaf("name"): K is the kind being
\* attached and ConflictingK the other of the two.
handleEnforceTCBAttr(D, AL, K, ConflictingK) ==
  LET c == checkStringLiteralArgumentAttr(AL)
  IN IF ~c.ok THEN Res(D, c.diags)
     ELSE IF findEnforceTCBAttrByName(D, ConflictingK, c.Str)
     THEN Res(dropAttr(D, "enforce_tcb"),
              c.diags \o <<"err_tcb_conflicting_attributes">>)
     ELSE Res(addAttr(D, StrAttr(K, c.Str)), c.diags)

(***************************************************************************)
(* weakref and alias.  A weakref written without an argument holds the     *)
(* null expression; the declarations of the model are not definitions and  *)
(* the target is neither Darwin nor NVPTX.                                 *)
(***************************************************************************)
handleWeakRefAttr(D, AL) ==
  LET getNumArgs == IF AL.args = <<NullExpr>> THEN 0
                    ELSE IF AL.args = <<>> THEN 1 ELSE Len(AL.args)
      \* D->getDeclContext()->getRedeclContext()->isFileContext()
      isFileContext == decl # "LocalVar"
      c == checkStringLiteralArgumentAttr(AL)
      D1 == IF getNumArgs > 0 /\ c.ok
            THEN addAttr(D, StrAttr("alias", c.Str)) ELSE D
      dg == IF getNumArgs > 0 THEN c.diags ELSE <<>>
  IN IF getNumArgs > 1
     THEN Res(D, <<"err_attribute_wrong_number_arguments">>)
     ELSE IF ~isFileContext
     THEN Res(D, <<"err_attribute_weakref_not_global_context">>)
     ELSE Res(addAttr(D1, Attr("weakref", <<>>, FALSE)), dg)

handleAliasAttr(D, AL) ==
  LET c == checkStringLiteralArgumentAttr(AL)
  IN IF ~c.ok THEN Res(D, c.diags)
     ELSE Res(addAttr(D, StrAttr("alias", c.Str)), c.diags)

(***************************************************************************)
(* Top level: ProcessDeclAttribute on one parsed attribute.                *)
(***************************************************************************)

\* A parsed attribute: its kind, expression arguments and string argument;
\* whether it was marked invalid, and whether its kind exists for the target
\* and for the auxiliary target of the compilation (FALSE when there is no
\* auxiliary target).
ParsedAttr(K, A, S) ==
  [kind |-> K, args |-> A, str |-> S,
   invalid |-> FALSE, inTarget |-> TRUE, inAux |-> FALSE]
NoParsedAttr == ParsedAttr("none", <<>>, "")

\* The attribute kinds that exist only when compiling SYCL.
SYCLKinds ==
  {"fpga_memory", "fpga_register", "bank_width", "num_banks", "bank_bits",
   "max_replicates", "force_pow2_depth", "esimd_vectorize",
   "max_work_group_size", "num_simd_work_items", "max_global_work_dim"}

\* The kinds declared incompatible with [[intel::fpga_register]].
RegisterExclusions ==
  {"fpga_memory", "bank_width", "num_banks", "bank_bits", "max_replicates",
   "force_pow2_depth"}

mutuallyExclusive(K1, K2) ==
  \/ (K1 = "fpga_register" /\ K2 \in RegisterExclusions)
  \/ (K2 = "fpga_register" /\ K1 \in RegisterExclusions)

\* The checks common to all attributes: language gate and mutual exclusion.
\* Returns the diagnostics; a non-empty list means the attribute is dropped.
checkCommonAttributeFeatures(D, AL) ==
  IF AL.kind \in SYCLKinds /\ ~(SYCLIsDevice \/ SYCLIsHost)
  THEN <<"warn_attribute_ignored">>
  ELSE IF \E i \in 1..Len(D) : mutuallyExclusive(AL.kind, D[i].kind)
  THEN <<"err_attributes_are_not_compatible", "note_conflicting_attribute">>
  ELSE <<>>

handleDeclAttribute(D, AL) ==
  CASE AL.kind = "fpga_memory" -> withStringArgument(D, AL)
    [] AL.kind = "fpga_register" -> handleSYCLIntelRegisterAttr(D)
    [] AL.kind = "bank_width" -> AddSYCLIntelBankWidthAttr(D, AL.args[1])
    [] AL.kind = "num_banks" -> AddSYCLIntelNumBanksAttr(D, AL.args[1])
    [] AL.kind = "bank_bits" -> handleSYCLIntelBankBitsAttr(D, AL.args)
    [] AL.kind = "max_replicates" -> AddSYCLIntelMaxReplicatesAttr(D, AL.args[1])
    [] AL.kind = "force_pow2_depth" ->
         AddSYCLIntelForcePow2DepthAttr(D, AL.args[1])
    [] AL.kind = "esimd_vectorize" ->
         AddSYCLIntelESimdVectorizeAttr(D, AL.args[1])
    [] AL.kind = "visibility" -> withStringArgument(D, AL)
    [] AL.kind = "section" -> withStringArgument(D, AL)
    [] AL.kind = "format" -> handleFormatAttr(D, AL)
    [] AL.kind = "enforce_tcb" ->
         handleEnforceTCBAttr(D, AL, "enforce_tcb", "enforce_tcb_leaf")
    [] AL.kind = "enforce_tcb_leaf" ->
         handleEnforceTCBAttr(D, AL, "enforce_tcb_leaf", "enforce_tcb")
    [] AL.kind = "reqd_work_group_size" -> handleReqdWorkGroupSize(D, AL.args)
    [] AL.kind = "max_work_group_size" ->
         AddSYCLIntelMaxWorkGroupSizeAttr(D, AL.args)
    [] AL.kind = "num_simd_work_items" ->
         AddSYCLIntelNumSimdWorkItemsAttr(D, AL.args[1])
    [] AL.kind = "max_global_work_dim" ->
         AddSYCLIntelMaxGlobalWorkDimAttr(D, AL.args[1])
    [] AL.kind = "weakref" -> handleWeakRefAttr(D, AL)
    [] AL.kind = "alias" -> handleAliasAttr(D, AL)
    [] AL.kind = "always_inline" -> handleAlwaysInlineAttr(D)
    [] AL.kind = "minsize" -> handleMinSizeAttr(D)
    [] AL.kind = "optnone" -> handleOptimizeNoneAttr(D)

isInvalid(AL) == AL.invalid
existsInTarget(AL) == AL.inTarget

\* Variant: the auxiliary target is consulted in every language mode.
existsInAuxTarget_AnyLanguage(AL) == AL.inAux

\* SYCLIsDevice && Aux && AL.existsInTarget(*Aux)
existsInAuxTarget(AL) == SYCLIsDevice /\ AL.inAux

\* Variant: the handler runs even when the common checks have diagnosed.
ProcessDeclAttribute_NoEarlyReturn(D, AL) ==
  IF isInvalid(AL) \/ AL.kind = "IgnoredAttribute" THEN Res(D, <<>>)
  ELSE IF AL.kind = "UnknownAttribute"
          \/ ~(existsInTarget(AL) \/ existsInAuxTarget(AL))
  THEN Res(D, <<"warn_unknown_attribute_ignored">>)
  ELSE Res(handleDeclAttribute(D, AL).attrs,
           checkCommonAttributeFeatures(D, AL)
             \o handleDeclAttribute(D, AL).diags)

\* The attributes are written with GNU or C++11 spelling on the declaration
\* itself, so an unknown attribute gets warn_unknown_attribute_ignored.
ProcessDeclAttribute(D, AL) ==
  IF isInvalid(AL) \/ AL.kind = "IgnoredAttribute" THEN Res(D, <<>>)
  ELSE IF AL.kind = "UnknownAttribute"
          \/ ~(existsInTarget(AL) \/ existsInAuxTarget(AL))
  THEN Res(D, <<"warn_unknown_attribute_ignored">>)
  ELSE IF checkCommonAttributeFeatures(D, AL) # <<>>
  THEN Res(D, checkCommonAttributeFeatures(D, AL))
  ELSE handleDeclAttribute(D, AL)

\* The loop of ProcessDeclAttributeList over the attributes of the list.
RECURSIVE processAll(_, _)
processAll(D, AttrList) ==
  IF AttrList = <<>> THEN Res(D, <<>>)
  ELSE LET r == ProcessDeclAttribute(D, Head(AttrList))
           rest == processAll(r.attrs, Tail(AttrList))
       IN Res(rest.attrs, r.diags \o rest.diags)

\* Variant: a weakref left without alias is diagnosed but stays attached.
ProcessDeclAttributeList_KeepsWeakRef(D, AttrList) ==
  LET r == processAll(D, AttrList)
  IN IF AttrList = <<>> THEN Res(D, <<>>)
     ELSE IF hasAttr(r.attrs, "weakref") /\ ~hasAttr(r.attrs, "alias")
     THEN Res(r.attrs, r.diags \o <<"err_attribute_weakref_without_alias">>)
     ELSE r

\* Apply all the attributes of the list to the declaration.  The checks of
\* kernel-only attributes that follow apply outside SYCL to attributes the
\* lists of the model do not hold.
ProcessDeclAttributeList(D, AttrList) ==
  LET r == processAll(D, AttrList)
  IN IF AttrList = <<>> THEN Res(D, <<>>)
     ELSE IF hasAttr(r.attrs, "weakref") /\ ~hasAttr(r.attrs, "alias")
     THEN Res(dropAttr(r.attrs, "weakref"),
              r.diags \o <<"err_attribute_weakref_without_alias">>)
     ELSE r

(***************************************************************************)
(* Template instantiation: every pending attribute of the declaration is   *)
(* re-run through its Add routine with the substituted arguments.          *)
(***************************************************************************)
isPending(A) == \E i \in 1..Len(A.args) : isValueDependent(A.args[i])
hasPending(D) == \E i \in 1..Len(D) : isPending(D[i])
firstPending(D) ==
  CHOOSE i \in 1..Len(D) : isPending(D[i]) /\ \A j \in 1..(i - 1) : ~isPending(D[j])
removeAt(D, i) == SubSeq(D, 1, i - 1) \o SubSeq(D, i + 1, Len(D))
substArgs(Args, c) ==
  [i \in 1..Len(Args) |-> IF isValueDependent(Args[i]) THEN Subst(c) ELSE Args[i]]

\* The Add routine of an attribute kind that can hold a dependent argument.
addRoutine(D, K, Args) ==
  CASE K = "bank_width" -> AddSYCLIntelBankWidthAttr(D, Args[1])
    [] K = "num_banks" -> AddSYCLIntelNumBanksAttr(D, Args[1])
    [] K = "bank_bits" -> AddSYCLIntelBankBitsAttr(D, Args)
    [] K = "max_replicates" -> AddSYCLIntelMaxReplicatesAttr(D, Args[1])
    [] K = "force_pow2_depth" -> AddSYCLIntelForcePow2DepthAttr(D, Args[1])
    [] K = "esimd_vectorize" -> AddSYCLIntelESimdVectorizeAttr(D, Args[1])
    [] K = "reqd_work_group_size" -> AddSYCLReqdWorkGroupSizeAttr(D, Args)
    [] K = "max_work_group_size" -> AddSYCLIntelMaxWorkGroupSizeAttr(D, Args)
    [] K = "num_simd_work_items" -> AddSYCLIntelNumSimdWorkItemsAttr(D, Args[1])
    [] K = "max_global_work_dim" -> AddSYCLIntelMaxGlobalWorkDimAttr(D, Args[1])

RECURSIVE on_instantiated(_, _, _)
on_instantiated(D, c, dg) ==
  IF ~hasPending(D) THEN Res(D, dg)
  ELSE LET i == firstPending(D)
           r == addRoutine(removeAt(D, i), D[i].kind, substArgs(D[i].args, c))
       IN on_instantiated(r.attrs, c, dg \o r.diags)

(***************************************************************************)
(* The state machine.                                                      *)
(***************************************************************************)

\* Arguments of the parsed attributes.
LitVals == {0, 3, 4, 6, 8}
IntArgs == {DepExpr} \cup {Lit(v) : v \in LitVals}
MemoryStrs == {"", "MLAB"}
BankBitsArgs ==
  { <<Lit(0), Lit(1)>>, <<Lit(1), Lit(2)>>, <<Lit(4), Lit(3), Lit(2)>>,
    <<Lit(0), Lit(2)>>, <<DepExpr, Lit(1)>> }
VisibilityStrs == {"default", "hidden"}
SectionStrs == {"A", "B"}
SubstVals == {4, 6}
ReqdArgs ==
  { <<Lit(2), Lit(2), Lit(2)>>, <<Lit(4), Lit(4), Lit(4)>>,
    <<Lit(2), Lit(2), Lit(16)>>, <<Lit(16), Lit(4)>>,
    <<DepExpr, Lit(2), Lit(2)>>, <<Lit(0), Lit(0), Lit(2)>> }
MaxWGSArgs ==
  { <<Lit(4), Lit(4), Lit(4)>>, <<Lit(1), Lit(1), Lit(1)>>,
    <<DepExpr, Lit(4), Lit(4)>>, <<Lit(4), DepExpr, Lit(4)>> }
SimdArgs == {DepExpr, Lit(0), Lit(4), Lit(5)}
MGWDArgs == {DepExpr, Lit(0), Lit(1)}

\* Arguments that reach the handler as evaluated expressions: outside SYCL
\* the arguments of reqd_work_group_size are plain integers, and a
\* value-dependent one delays the whole attribute.
allowedArgs(Args) ==
  (SYCLIsDevice \/ SYCLIsHost)
  \/ (Len(Args) = 3 /\ \A i \in 1..3 : ~isValueDependent(Args[i]))

Step(AL) ==
  /\ steps < MaxOps
  /\ attrs' = ProcessDeclAttribute(attrs, AL).attrs
  /\ last' = [op |-> AL, diags |-> ProcessDeclAttribute(attrs, AL).diags]
  /\ pre' = attrs
  /\ steps' = steps + 1
  /\ UNCHANGED <<lang, decl>>

ProcessMemory == \E s \in MemoryStrs : Step(ParsedAttr("fpga_memory", <<>>, s))
ProcessRegister == Step(ParsedAttr("fpga_register", <<>>, ""))
ProcessBankWidth == \E e \in IntArgs : Step(ParsedAttr("bank_width", <<e>>, ""))
ProcessNumBanks == \E e \in IntArgs : Step(ParsedAttr("num_banks", <<e>>, ""))
ProcessBankBits == \E a \in BankBitsArgs : Step(ParsedAttr("bank_bits", a, ""))
ProcessVisibility ==
  \E s \in VisibilityStrs : Step(ParsedAttr("visibility", <<>>, s))
ProcessSection == \E s \in SectionStrs : Step(ParsedAttr("section", <<>>, s))
ProcessReqdWorkGroupSize ==
  \E a \in ReqdArgs :
    allowedArgs(a) /\ Step(ParsedAttr("reqd_work_group_size", a, ""))
ProcessMaxWorkGroupSize ==
  \E a \in MaxWGSArgs : Step(ParsedAttr("max_work_group_size", a, ""))
ProcessNumSimdWorkItems ==
  \E e \in SimdArgs : Step(ParsedAttr("num_simd_work_items", <<e>>, ""))
ProcessMaxGlobalWorkDim ==
  \E e \in MGWDArgs : Step(ParsedAttr("max_global_work_dim", <<e>>, ""))

Instantiate ==
  \E c \in SubstVals :
    /\ steps < MaxOps
    /\ hasPending(attrs)
    /\ attrs' = on_instantiated(attrs, c, <<>>).attrs
    /\ last' = [op |-> ParsedAttr("instantiate", <<Subst(c)>>, ""),
                diags |-> on_instantiated(attrs, c, <<>>).diags]
    /\ pre' = attrs
    /\ steps' = steps + 1
    /\ UNCHANGED <<lang, decl>>

InitCommon ==
  /\ attrs = <<>>
  /\ pre = <<>>
  /\ last = [op |-> NoParsedAttr, diags |-> <<>>]
  /\ steps = 0

\* A variable carrying FPGA memory attributes, compiled as SYCL.
Init ==
  /\ lang \in {"SYCLDevice", "SYCLHost"}
  /\ decl \in {"LocalVar", "GlobalVar"}
  /\ InitCommon

Next ==
  \/ ProcessMemory
  \/ ProcessRegister
  \/ ProcessBankWidth
  \/ ProcessNumBanks
  \/ ProcessBankBits
  \/ ProcessVisibility
  \/ ProcessSection
  \/ Instantiate

Spec == Init /\ [][Next]_vars

\* A function carrying work-group size attributes.
InitWG ==
  /\ lang \in {"SYCLDevice", "SYCLHost", "OpenCL"}
  /\ decl = "Function"
  /\ InitCommon

NextWG ==
  \/ ProcessReqdWorkGroupSize
  \/ ProcessMaxWorkGroupSize
  \/ ProcessNumSimdWorkItems
  \/ ProcessMaxGlobalWorkDim
  \/ Instantiate

SpecWG == InitWG /\ [][NextWG]_vars

(***************************************************************************)
(* Redeclaration: the attributes of the previous declaration are merged    *)
(* into D one by one, each through the Merge routine of its kind.          *)
(***************************************************************************)

\* Values of the attributes inherited from the previous declaration.
MergeArgs == {DepExpr, ConstantExpr(4), ConstantExpr(8)}
MergeKinds == {"bank_width", "num_banks", "max_replicates"}

mergeRoutine(D, A) ==
  CASE A.kind = "bank_width" -> MergeSYCLIntelBankWidthAttr(D, A)
    [] A.kind = "num_banks" -> MergeSYCLIntelNumBanksAttr(D, A)
    [] A.kind = "max_replicates" -> MergeSYCLIntelMaxReplicatesAttr(D, A)
    [] A.kind = "max_work_group_size" -> MergeSYCLIntelMaxWorkGroupSizeAttr(D, A)
    [] A.kind = "reqd_work_group_size" -> MergeSYCLReqdWorkGroupSizeAttr(D, A)
    [] A.kind = "max_global_work_dim" -> MergeSYCLIntelMaxGlobalWorkDimAttr(D, A)

\* The attribute the Merge routine returns, if any, is added to D.
mergeDeclAttribute(D, A) ==
  IF mergeRoutine(D, A).add = NoAttr
  THEN Res(D, mergeRoutine(D, A).diags)
  ELSE Res(addAttr(D, mergeRoutine(D, A).add), mergeRoutine(D, A).diags)

\* The attribute of kind K holding Args is inherited by the declaration.
MergeWith(K, Args) ==
  /\ steps < MaxOps
  /\ attrs' = mergeDeclAttribute(attrs, Attr(K, Args, FALSE)).attrs
  /\ last' = [op |-> ParsedAttr("merge", Args, K),
              diags |-> mergeDeclAttribute(attrs, Attr(K, Args, FALSE)).diags]
  /\ pre' = attrs
  /\ steps' = steps + 1
  /\ UNCHANGED <<lang, decl>>

Merge(K) == \E e \in MergeArgs : MergeWith(K, <<e>>)

ProcessMaxReplicates ==
  \E e \in IntArgs : Step(ParsedAttr("max_replicates", <<e>>, ""))
MergeBankWidth == Merge("bank_width")
MergeNumBanks == Merge("num_banks")
MergeMaxReplicates == Merge("max_replicates")

NextMerge ==
  \/ ProcessBankWidth
  \/ ProcessNumBanks
  \/ ProcessMaxReplicates
  \/ MergeBankWidth
  \/ MergeNumBanks
  \/ MergeMaxReplicates

\* A variable redeclared with single-integer FPGA memory attributes.
SpecMerge == Init /\ [][NextMerge]_vars

(***************************************************************************)
(* Repeatable attributes written on a function.                            *)
(***************************************************************************)
FormatTypes == {"printf", "__printf__", "scanf", "strftime", "bogus"}
FormatIdxs == {0, 1, 2}
FirstArgs == {0, 2, 3}
TCBNames == {"x", "y"}
\* A string argument written as a string literal, as an identifier, as a
\* wide string literal or as an integer.
StringArgForms == {<<>>, <<Ident>>, <<WideString>>, <<Lit(0)>>}

ProcessFormat ==
  \E t \in FormatTypes, i \in FormatIdxs, f \in FirstArgs :
    Step(ParsedAttr("format", <<Lit(i), Lit(f)>>, t))
ProcessEnforceTCB ==
  \E n \in TCBNames, a \in StringArgForms : Step(ParsedAttr("enforce_tcb", a, n))
ProcessEnforceTCBLeaf ==
  \E n \in TCBNames, a \in StringArgForms :
    Step(ParsedAttr("enforce_tcb_leaf", a, n))

InitRepeat ==
  /\ lang \in {"SYCLHost", "OpenCL"}
  /\ decl \in {"Function", "VariadicFunction"}
  /\ InitCommon

NextRepeat ==
  \/ ProcessFormat
  \/ ProcessEnforceTCB
  \/ ProcessEnforceTCBLeaf

\* A function carrying format and enforce_tcb attributes.
SpecRepeat == InitRepeat /\ [][NextRepeat]_vars

(***************************************************************************)
(* Parsed attributes that may be invalid, ignored, unknown or missing from *)
(* the target.                                                             *)
(***************************************************************************)
GateAttrs ==
  { ParsedAttr("UnknownAttribute", <<>>, ""),
    ParsedAttr("IgnoredAttribute", <<>>, ""),
    ParsedAttr("visibility", <<>>, "default"),
    ParsedAttr("visibility", <<>>, "hidden"),
    ParsedAttr("section", <<>>, "A"),
    ParsedAttr("section", <<>>, "B"),
    ParsedAttr("bank_width", <<Lit(4)>>, ""),
    ParsedAttr("bank_width", <<Lit(3)>>, "") }

ProcessGated ==
  \E AL \in GateAttrs, inv \in BOOLEAN, t \in BOOLEAN, a \in BOOLEAN :
    Step([AL EXCEPT !.invalid = inv, !.inTarget = t, !.inAux = a])

NextGate == ProcessGated

\* A variable whose parsed attributes pass through the target gate.
SpecGate == Init /\ [][NextGate]_vars

(***************************************************************************)
(* String arguments written in every form, on a variable.                  *)
(***************************************************************************)
MemoryNames == {"MLAB", "bogus"}

ProcessMemoryArg ==
  \/ Step(ParsedAttr("fpga_memory", <<>>, ""))
  \/ \E s \in MemoryNames, a \in StringArgForms :
       Step(ParsedAttr("fpga_memory", a, s))
ProcessVisibilityArg ==
  \E s \in VisibilityStrs, a \in StringArgForms :
    Step(ParsedAttr("visibility", a, s))
ProcessSectionArg ==
  \E s \in SectionStrs, a \in StringArgForms : Step(ParsedAttr("section", a, s))

NextStr ==
  \/ ProcessMemoryArg
  \/ ProcessVisibilityArg
  \/ ProcessSectionArg

\* A variable carrying attributes with one string argument.
SpecStr == Init /\ [][NextStr]_vars

(***************************************************************************)
(* Attributes with range-constrained integer arguments: those of a         *)
(* variable when decl is a variable, those of a function otherwise.        *)
(***************************************************************************)
ForcePow2Args == {DepExpr, Lit(-1), Lit(0), Lit(1), Lit(2)}
ESimdArgs == {DepExpr, Lit(4), Lit(8), Lit(16)}

ProcessForcePow2Depth ==
  \E e \in ForcePow2Args : Step(ParsedAttr("force_pow2_depth", <<e>>, ""))
ProcessESimdVectorize ==
  \E e \in ESimdArgs : Step(ParsedAttr("esimd_vectorize", <<e>>, ""))

InitRange ==
  /\ lang \in {"SYCLDevice", "SYCLHost"}
  /\ decl \in {"LocalVar", "GlobalVar", "Function"}
  /\ InitCommon

NextRange ==
  \/ decl # "Function" /\ ProcessMaxReplicates
  \/ decl # "Function" /\ ProcessForcePow2Depth
  \/ decl = "Function" /\ ProcessMaxGlobalWorkDim
  \/ decl = "Function" /\ ProcessNumSimdWorkItems
  \/ decl = "Function" /\ ProcessESimdVectorize
  \/ decl = "Function" /\ ProcessReqdWorkGroupSize
  \/ decl = "Function" /\ ProcessMaxWorkGroupSize
  \/ Instantiate

\* A declaration carrying attributes whose arguments are range-constrained.
SpecRange == InitRange /\ [][NextRange]_vars

(***************************************************************************)
(* Work-group-size attributes whose arguments are all resolved when they   *)
(* are written, on a function that may also inherit them.                  *)
(***************************************************************************)
isResolvedList(Args) == \A i \in 1..Len(Args) : ~isValueDependent(Args[i])
ResolvedReqdArgs == {a \in ReqdArgs : isResolvedList(a)}
ResolvedMaxWGSArgs ==
  { <<Lit(4), Lit(4), Lit(4)>>, <<Lit(1), Lit(1), Lit(1)>>,
    <<Lit(16), Lit(4), Lit(4)>> }
ResolvedMGWDArgs == {a \in MGWDArgs : ~isValueDependent(a)}
\* The dimensions held by an attribute of the previous declaration: the
\* converted arguments of an attribute that was accepted there.
InheritedDims(S) ==
  { [i \in 1..3 |-> CheckAndConvertArg(padDims(a)[i])] :
      a \in {b \in S : convertDiags(b) = <<>>} }

ProcessResolvedReqdWorkGroupSize ==
  \E a \in ResolvedReqdArgs : Step(ParsedAttr("reqd_work_group_size", a, ""))
ProcessResolvedMaxWorkGroupSize ==
  \E a \in ResolvedMaxWGSArgs : Step(ParsedAttr("max_work_group_size", a, ""))
ProcessResolvedMaxGlobalWorkDim ==
  \E e \in ResolvedMGWDArgs : Step(ParsedAttr("max_global_work_dim", <<e>>, ""))
MergeReqdWorkGroupSize ==
  \E a \in InheritedDims(ResolvedReqdArgs) : MergeWith("reqd_work_group_size", a)
MergeMaxWorkGroupSize ==
  \E a \in InheritedDims(ResolvedMaxWGSArgs) : MergeWith("max_work_group_size", a)
MergeMaxGlobalWorkDim ==
  \E e \in ResolvedMGWDArgs :
    MergeWith("max_global_work_dim", <<ConstantExpr(e.v)>>)

InitResolved ==
  /\ lang \in {"SYCLDevice", "SYCLHost"}
  /\ decl = "Function"
  /\ InitCommon

NextResolved ==
  \/ ProcessResolvedReqdWorkGroupSize
  \/ ProcessResolvedMaxWorkGroupSize
  \/ ProcessResolvedMaxGlobalWorkDim
  \/ MergeReqdWorkGroupSize
  \/ MergeMaxWorkGroupSize
  \/ MergeMaxGlobalWorkDim

SpecResolved == InitResolved /\ [][NextResolved]_vars

(***************************************************************************)
(* num_banks and bank_bits written with literal arguments on a variable.   *)
(***************************************************************************)
ResolvedNumBanksArgs == {e \in IntArgs : ~isValueDependent(e)}
ResolvedBankBitsArgs ==
  {a \in BankBitsArgs : isResolvedList(a)}
    \cup { <<Lit(3), Lit(4), Lit(5)>>, <<Lit(2), Lit(1)>>, <<Lit(1), Lit(1)>>,
           <<Lit(2), Lit(3), Lit(2)>> }

ProcessResolvedNumBanks ==
  \E e \in ResolvedNumBanksArgs : Step(ParsedAttr("num_banks", <<e>>, ""))
ProcessResolvedBankBits ==
  \E a \in ResolvedBankBitsArgs : Step(ParsedAttr("bank_bits", a, ""))

NextBanks ==
  \/ ProcessResolvedNumBanks
  \/ ProcessResolvedBankBits

SpecBanks == Init /\ [][NextBanks]_vars

(***************************************************************************)
(* always_inline, minsize and optnone written on a function or inherited   *)
(* from its previous declaration.                                          *)
(***************************************************************************)
OptimizationKinds == {"always_inline", "minsize", "optnone"}

ProcessAlwaysInline == Step(ParsedAttr("always_inline", <<>>, ""))
ProcessMinSize == Step(ParsedAttr("minsize", <<>>, ""))
ProcessOptimizeNone == Step(ParsedAttr("optnone", <<>>, ""))
\* The inherited attribute goes through the merge routine of its kind and
\* what the routine returns is added.
MergeOptimization ==
  \E K \in OptimizationKinds :
    LET r == CASE K = "always_inline" -> addMerged(mergeAlwaysInlineAttr(attrs))
               [] K = "minsize" -> addMerged(mergeMinSizeAttr(attrs))
               [] K = "optnone" -> addMerged(mergeOptimizeNoneAttr(attrs))
    IN
    /\ steps < MaxOps
    /\ attrs' = r.attrs
    /\ last' = [op |-> ParsedAttr("merge", <<>>, K), diags |-> r.diags]
    /\ pre' = attrs
    /\ steps' = steps + 1
    /\ UNCHANGED <<lang, decl>>

NextOpt ==
  \/ ProcessAlwaysInline
  \/ ProcessMinSize
  \/ ProcessOptimizeNone
  \/ MergeOptimization

SpecOpt == InitWG /\ [][NextOpt]_vars

(***************************************************************************)
(* Attribute lists holding weakref and alias, processed as a whole.        *)
(***************************************************************************)
MaxLists == 1
MaxListLen == 2
ListAttrs ==
  { ParsedAttr("weakref", <<NullExpr>>, ""), ParsedAttr("weakref", <<>>, "t"),
    ParsedAttr("weakref", <<WideString>>, "t"), ParsedAttr("alias", <<>>, "t"),
    ParsedAttr("section", <<>>, "A") }
AttrLists ==
  UNION {[1..n -> ListAttrs] : n \in 0..MaxListLen}

ProcessList ==
  \E L \in AttrLists :
    /\ steps < MaxLists
    /\ LET r == ProcessDeclAttributeList(attrs, L)
       IN /\ attrs' = r.attrs
          /\ last' = [op |-> ParsedAttr("list", L, ""), diags |-> r.diags]
    /\ pre' = attrs
    /\ steps' = steps + 1
    /\ UNCHANGED <<lang, decl>>

InitList ==
  /\ lang \in {"SYCLDevice", "SYCLHost"}
  /\ decl \in {"LocalVar", "GlobalVar", "Function"}
  /\ InitCommon

SpecList == InitList /\ [][ProcessList]_vars

(***************************************************************************)
(* bank_bits lists of up to MaxBankBits ascending entries, the value of    *)
(* the shift that sizes the implicit num_banks drawn from its outcomes.    *)
(***************************************************************************)
MaxBankBits == 32
\* Lists of that length written on one declaration.
MaxLongLists == 2
AscendingList(n) == [i \in 1..n |-> Lit(i - 1)]

\* ProcessDeclAttribute on a bank_bits list: the common checks, then the
\* handler, which tests for a duplicate and calls the Add routine.
ProcessLongBankBits ==
  \E n \in 1..MaxBankBits : \E Num \in shiftOutcomes(n) :
    LET AL == ParsedAttr("bank_bits", AscendingList(n), "")
        a == AddSYCLIntelBankBitsAttrShift(attrs, AL.args, Num)
        r == IF checkCommonAttributeFeatures(attrs, AL) # <<>>
             THEN ProcessDeclAttribute(attrs, AL)
             ELSE Res(a.attrs,
                      checkForDuplicateAttribute(attrs, "bank_bits") \o a.diags)
    IN /\ steps < MaxLongLists
       /\ attrs' = r.attrs
       /\ last' = [op |-> AL, diags |-> r.diags]
       /\ pre' = attrs
       /\ steps' = steps + 1
       /\ UNCHANGED <<lang, decl>>

NextShift ==
  \/ ProcessLongBankBits
  \/ ProcessResolvedNumBanks

SpecShift == Init /\ [][NextShift]_vars

(***************************************************************************)
(* Properties.                                                             *)
(***************************************************************************)

\* The attribute an accepted attachment of the literal parsed attribute AL
\* stores on the declaration.
storedAttr(AL) ==
  CASE AL.kind = "fpga_memory" ->
         Attr("fpga_memory",
              <<EnumArg(IF AL.str = "" THEN MemDefault
                        ELSE ConvertStrToMemoryKind(AL.str))>>, FALSE)
    [] AL.kind = "visibility" ->
         Attr("visibility", <<EnumArg(ConvertStrToVisibilityType(AL.str))>>, FALSE)
    [] AL.kind = "section" -> StrAttr("section", AL.str)
    [] AL.kind = "reqd_work_group_size" ->
         IF lang = "OpenCL"
         THEN Attr("opencl_reqd_work_group_size",
                   [i \in 1..Len(AL.args) |-> UInt(AL.args[i].v)], FALSE)
         ELSE Attr("reqd_work_group_size",
                   [i \in 1..3 |-> IF i <= Len(AL.args)
                                   THEN ConstantExpr(AL.args[i].v)
                                   ELSE NullExpr], FALSE)
    [] OTHER ->
         Attr(AL.kind, [i \in 1..Len(AL.args) |-> ConstantExpr(AL.args[i].v)],
              FALSE)

opIsLiteral(AL) == \A i \in 1..Len(AL.args) : AL.args[i].k = "lit"

\* The kinds of parsed attributes that are written with arguments.
ArgKinds ==
  {"fpga_memory", "bank_width", "num_banks", "bank_bits", "visibility",
   "section", "reqd_work_group_size", "max_work_group_size",
   "num_simd_work_items", "max_global_work_dim"}

\* The last step attached K(v) to a declaration that already carried exactly
\* one instance of K, explicit and with the same value v.
secondAttachment ==
  /\ last.op.kind \in ArgKinds
  /\ opIsLiteral(last.op)
  /\ countAttr(pre, storedAttr(last.op).kind) = 1
  /\ getAttr(pre, storedAttr(last.op).kind) = storedAttr(last.op)

\* C1: idempotence -- attaching K(v) to a declaration that carries K(v) from
\* a first attachment leaves exactly one instance of K and emits no
\* diagnostic.
C1_Idempotence ==
  secondAttachment =>
    /\ countAttr(attrs, storedAttr(last.op).kind) = 1
    /\ last.diags = <<>>

\* C2: on every reachable declaration each of the non-repeatable kinds
\* bank_bits, num_simd_work_items and reqd_work_group_size has at most one
\* explicit instance.
C2_AtMostOneExplicit ==
  \A K \in {"bank_bits", "num_simd_work_items", "reqd_work_group_size"} :
    countExplicit(attrs, K) <= 1

\* An attribute all of whose arguments are resolved (none value-dependent).
resolvedAttr(A) == \A i \in 1..Len(A.args) : ~isValueDependent(A.args[i])

\* The parsed attribute carries literal, strictly positive sizes.
validSizes(AL) == opIsLiteral(AL) /\ \A i \in 1..Len(AL.args) : AL.args[i].v > 0

ReqdKinds == {"reqd_work_group_size", "opencl_reqd_work_group_size"}

\* The last step attached reqd_work_group_size with valid literal sizes to a
\* function whose only decoration was a reqd_work_group_size with literal
\* sizes that differ in some dimension.
secondDifferingReqd ==
  /\ last.op.kind = "reqd_work_group_size"
  /\ validSizes(last.op)
  /\ Len(pre) = 1
  /\ pre[1].kind \in ReqdKinds
  /\ resolvedAttr(pre[1])
  /\ pre[1].args # storedAttr(last.op).args

conflictingArrival(K) ==
  /\ last.op.kind = K
  /\ opIsLiteral(last.op)
  /\ countAttr(pre, K) = 1
  /\ ~getAttr(pre, K).implicit
  /\ resolvedAttr(getAttr(pre, K))
  /\ getAttr(pre, K) # storedAttr(last.op)

\* The merge outcome "the existing instance wins".
existingWins == primaryCount(last.diags) >= 1 /\ attrs = pre

C4_WitnessVisibility ==
  /\ conflictingArrival("visibility")
  /\ countAttr(attrs, "visibility") = 1
  /\ getAttr(attrs, "visibility") = storedAttr(last.op)

\* The declaration before the last step carried exactly one instance of K,
\* an implicit one.
implicitOnly(K) == countAttr(pre, K) = 1 /\ getAttr(pre, K).implicit

DuplicateDiags == {"warn_duplicate_attribute", "warn_duplicate_attribute_exact"}

\* C5: explicit over implicit -- when an implicit instance of fpga_memory or
\* num_banks is present and an explicit instance of the same kind arrives and
\* is accepted, the implicit one is removed and the explicit one attached, so
\* exactly one instance remains, and no duplicate diagnostic is emitted.
C5_ExplicitOverImplicit ==
  \A K \in {"fpga_memory", "num_banks"} :
    (last.op.kind = K /\ implicitOnly(K) /\ countExplicit(attrs, K) >= 1) =>
      /\ countAttr(attrs, K) = 1
      /\ ~getAttr(attrs, K).implicit
      /\ \A i \in 1..Len(last.diags) : last.diags[i] \notin DuplicateDiags

\* Witness of C5: an explicit num_banks(4) replaced the implicit num_banks
\* synthesized from bank_bits.
C5_Witness ==
  /\ last.op = ParsedAttr("num_banks", <<Lit(4)>>, "")
  /\ implicitOnly("num_banks")
  /\ countAttr(attrs, "num_banks") = 1
  /\ getAttr(attrs, "num_banks") = Attr("num_banks", <<ConstantExpr(4)>>, FALSE)

\* Second witness of C5: an explicit fpga_memory("MLAB") replaced the
\* implicit default memory.
C5_WitnessMemory ==
  /\ last.op = ParsedAttr("fpga_memory", <<>>, "MLAB")
  /\ implicitOnly("fpga_memory")
  /\ countAttr(attrs, "fpga_memory") = 1
  /\ ~getAttr(attrs, "fpga_memory").implicit

\* ceil(log2 v) = n, for v > 0.
ceilLog2Is(v, n) == v <= Pow2(n) /\ (n = 0 \/ v > Pow2(n - 1))

\* The last step attached a literal bank_bits list and it was accepted.
bankBitsAccepted ==
  /\ last.op.kind = "bank_bits"
  /\ opIsLiteral(last.op)
  /\ countAttr(attrs, "bank_bits") = countAttr(pre, "bank_bits") + 1

\* Implicit synthesis: an accepted bank_bits with n literal entries on a
\* variable without num_banks attaches an implicit num_banks of 2^n.
synthesizedNumBanks ==
  (bankBitsAccepted /\ ~hasAttr(pre, "num_banks")) =>
    /\ countAttr(attrs, "num_banks") = 1
    /\ getAttr(attrs, "num_banks") =
         Attr("num_banks", <<Lit(Pow2(Len(last.op.args)))>>, TRUE)

\* The last step attached an explicit literal num_banks(v), v > 0, to a
\* variable carrying bank_bits and the implicit num_banks synthesized from it.
numBanksOnSynthesized ==
  /\ last.op.kind = "num_banks"
  /\ opIsLiteral(last.op)
  /\ last.op.args[1].v > 0
  /\ hasAttr(pre, "bank_bits")
  /\ implicitOnly("num_banks")
  /\ getAttr(pre, "num_banks").args[1].v = Pow2(Len(getAttr(pre, "bank_bits").args))

numBanksReplaced ==
  /\ countAttr(attrs, "num_banks") = 1
  /\ getAttr(attrs, "num_banks") =
       Attr("num_banks", <<ConstantExpr(last.op.args[1].v)>>, FALSE)
  /\ last.diags = <<>>

numBanksConflict ==
  last.diags = <<"err_bankbits_numbanks_conflicting">> /\ attrs = pre

C6_WitnessAccepted ==
  /\ numBanksOnSynthesized
  /\ last.op.args = <<Lit(8)>>
  /\ Len(getAttr(pre, "bank_bits").args) = 3
  /\ numBanksReplaced

\* C7: on a variable carrying fpga_register, attaching num_banks is rejected
\* with the mutual-exclusion diagnostic; num_banks is not attached and no
\* implicit fpga_memory is synthesized.
C7_RegisterExcludesNumBanks ==
  (hasAttr(pre, "fpga_register") /\ last.op.kind = "num_banks") =>
    /\ last.diags = <<"err_attributes_are_not_compatible",
                      "note_conflicting_attribute">>
    /\ attrs = pre
    /\ ~hasAttr(attrs, "num_banks")
    /\ ~hasAttr(attrs, "fpga_memory")

\* Witness of C7: register then num_banks(4).
C7_Witness ==
  /\ pre = <<Attr("fpga_register", <<>>, FALSE)>>
  /\ last.op = ParsedAttr("num_banks", <<Lit(4)>>, "")
  /\ attrs = pre
  /\ last.diags[1] = "err_attributes_are_not_compatible"

\* The last step attached K(v), v a literal, to an eligible variable with no
\* prior decorations.
firstAttachment(K) ==
  /\ last.op.kind = K
  /\ opIsLiteral(last.op)
  /\ pre = <<>>
  /\ steps = 1
  /\ ~(SYCLIsDevice /\ decl = "GlobalVar")

\* C8: power-of-two gate -- bank_width(v) or num_banks(v) on an eligible
\* variable with no prior decorations is attached with value v exactly when
\* v > 0 and v is a power of two; otherwise exactly one range error is
\* emitted and nothing is attached.
C8_PowerOfTwoGate ==
  \A K \in {"bank_width", "num_banks"} :
    firstAttachment(K) =>
      IF last.op.args[1].v > 0 /\ \E k \in 0..30 : last.op.args[1].v = Pow2(k)
      THEN /\ countAttr(attrs, K) = 1
           /\ getAttr(attrs, K) = Attr(K, <<ConstantExpr(last.op.args[1].v)>>, FALSE)
           /\ last.diags = <<>>
      ELSE /\ Len(last.diags) = 1
           /\ last.diags[1] \in {"err_attribute_requires_positive_integer",
                                 "err_attribute_argument_not_power_of_two"}
           /\ attrs = <<>>

\* Witness of C8: bank_width(6) rejected.
C8_Witness ==
  /\ firstAttachment("bank_width")
  /\ last.op.args = <<Lit(6)>>
  /\ last.diags = <<"err_attribute_argument_not_power_of_two">>
  /\ attrs = <<>>

\* Second witness of C8: num_banks(8) accepted.
C8_WitnessAccepted ==
  /\ firstAttachment("num_banks")
  /\ last.op.args = <<Lit(8)>>
  /\ getAttr(attrs, "num_banks").args = <<ConstantExpr(8)>>

\* The last step attached bank_width(N) or num_banks(N), N value-dependent,
\* and the attribute passed the common checks.
dependentArrival ==
  /\ last.op.kind \in {"bank_width", "num_banks"}
  /\ last.op.args = <<DepExpr>>
  /\ checkCommonAttributeFeatures(pre, last.op) = <<>>

\* The last step instantiated a declaration that held exactly one pending
\* attribute.
instantiatedOne ==
  /\ last.op.kind = "instantiate"
  /\ Cardinality({i \in 1..Len(pre) : isPending(pre[i])}) = 1

\* The pending attribute that the last step resolved, the declaration
\* without it, and the value substituted.
pendingAttr == pre[firstPending(pre)]
priorState == removeAt(pre, firstPending(pre))
substValue == last.op.args[1].v

\* Attaching the same attribute with the literal c in place of N to a
\* declaration in the same prior state.
literalRun ==
  ProcessDeclAttribute(priorState,
    ParsedAttr(pendingAttr.kind,
               [j \in 1..Len(pendingAttr.args) |->
                  IF isValueDependent(pendingAttr.args[j])
                  THEN Lit(substValue) ELSE pendingAttr.args[j]], ""))

\* The diagnostic a sequence of diagnostics ends with, notes aside.
RECURSIVE lastPrimary(_)
lastPrimary(dg) ==
  IF dg = <<>> THEN "none"
  ELSE IF isNote(dg[Len(dg)]) THEN lastPrimary(SubSeq(dg, 1, Len(dg) - 1))
  ELSE dg[Len(dg)]

C9_WitnessRejected ==
  /\ instantiatedOne
  /\ pendingAttr = Attr("bank_width", <<DepExpr>>, FALSE)
  /\ substValue = 6
  /\ ~hasAttr(attrs, "bank_width")
  /\ last.diags = <<"err_attribute_argument_not_power_of_two">>

\* Third witness of C9: bank_width(N) stored pending.
C9_WitnessPending ==
  /\ dependentArrival
  /\ last.op.kind = "bank_width"
  /\ isPending(attrs[Len(attrs)])

\* The fastest-varying dimension of a work-group size: the last one
\* specified.
lastSpecified(Args) ==
  Args[CHOOSE i \in 1..Len(Args) :
         ~isNull(Args[i]) /\ \A j \in (i + 1)..Len(Args) : isNull(Args[j])].v

ConflictDiags ==
  {"err_sycl_num_kernel_wrong_reqd_wg_size",
   "err_conflicting_sycl_function_attributes"}

\* The last step attached a valid literal num_simd_work_items to a function
\* without num_simd_work_items whose first reqd_work_group_size is resolved.
simdArrives ==
  /\ lang # "OpenCL"
  /\ last.op.kind = "num_simd_work_items"
  /\ validSizes(last.op)
  /\ ~hasAttr(pre, "num_simd_work_items")
  /\ hasAttr(pre, "reqd_work_group_size")
  /\ resolvedAttr(getAttr(pre, "reqd_work_group_size"))

\* The last step attached a valid literal reqd_work_group_size to a function
\* whose first num_simd_work_items is resolved.
reqdArrives ==
  /\ lang # "OpenCL"
  /\ last.op.kind = "reqd_work_group_size"
  /\ validSizes(last.op)
  /\ hasAttr(pre, "num_simd_work_items")
  /\ resolvedAttr(getAttr(pre, "num_simd_work_items"))

\* C10: for resolved reqd_work_group_size and num_simd_work_items on one
\* function, the later of the two is rejected with a conflict diagnostic
\* exactly when the last specified dimension of reqd_work_group_size is not
\* divisible by the num_simd_work_items value; the two are never attached
\* together with a non-zero remainder.
C10_Divisibility ==
  /\ simdArrives =>
       IF lastSpecified(getAttr(pre, "reqd_work_group_size").args)
            % last.op.args[1].v # 0
       THEN /\ last.diags[1] = "err_sycl_num_kernel_wrong_reqd_wg_size"
            /\ primaryCount(last.diags) = 1
            /\ attrs = pre
       ELSE /\ last.diags = <<>>
            /\ attrs = addAttr(pre, storedAttr(last.op))
  /\ reqdArrives =>
       IF lastSpecified(last.op.args)
            % getAttr(pre, "num_simd_work_items").args[1].v # 0
       THEN /\ \E i \in 1..Len(last.diags) : last.diags[i] \in ConflictDiags
            /\ attrs = pre
       ELSE /\ \A i \in 1..Len(last.diags) :
                 last.diags[i] # "err_sycl_num_kernel_wrong_reqd_wg_size"
            /\ Len(pre) = 1 =>
                 (last.diags = <<>> /\ attrs = addAttr(pre, storedAttr(last.op)))
  /\ \A i \in 1..Len(attrs) : \A j \in 1..Len(attrs) :
       ( /\ attrs[i].kind = "reqd_work_group_size"
         /\ attrs[j].kind = "num_simd_work_items"
         /\ resolvedAttr(attrs[i])
         /\ resolvedAttr(attrs[j]) )
       => lastSpecified(attrs[i].args) % attrs[j].args[1].v = 0

\* The parsed attribute that attached A: its specified arguments.
parsedOf(A) ==
  ParsedAttr(A.kind, SelectSeq(A.args, LAMBDA e : ~isNull(e)), "")

\* The pairs of kinds tied by a cross-attribute rule.
RulePairs ==
  { {"reqd_work_group_size", "max_work_group_size"},
    {"reqd_work_group_size", "num_simd_work_items"},
    {"max_global_work_dim", "reqd_work_group_size"},
    {"max_global_work_dim", "max_work_group_size"} }

RuleDiags ==
  {"err_conflicting_sycl_function_attributes",
   "err_sycl_num_kernel_wrong_reqd_wg_size",
   "err_sycl_x_y_z_arguments_must_be_one"}

ruleDiagnosed(dg) == \E i \in 1..Len(dg) : dg[i] \in RuleDiags

\* The last step attached B to a function carrying only A, A and B being of
\* two kinds tied by a rule, and B can be attached to an undecorated function.
pairAttached ==
  /\ lang # "OpenCL"
  /\ Len(pre) = 1
  /\ {pre[1].kind, last.op.kind} \in RulePairs
  /\ Len(ProcessDeclAttribute(<<>>, last.op).attrs) = 1

\* The diagnostics of attaching A after B, for the A and B of the last step.
reverseOrderDiags ==
  ProcessDeclAttribute(ProcessDeclAttribute(<<>>, last.op).attrs,
                       parsedOf(pre[1])).diags

\* C11: arrival-order symmetry -- for each cross-attribute rule and every
\* pair of attributes A and B (arguments literal or partly value-dependent),
\* a rule violation is diagnosed when B is attached after A if and only if it
\* is diagnosed when A is attached after B.
C11_ArrivalOrderSymmetry ==
  pairAttached => (ruleDiagnosed(last.diags) <=> ruleDiagnosed(reverseOrderDiags))

\* The attribute an accepted attachment of AL stores when some of its
\* arguments are value-dependent: those stay unconverted.
storedPending(AL) ==
  Attr(AL.kind,
       [i \in 1..Len(AL.args) |->
          IF isValueDependent(AL.args[i]) THEN AL.args[i]
          ELSE ConstantExpr(AL.args[i].v)], FALSE)

\* Two argument lists known to differ: of different lengths, or with a
\* position where both hold resolved, different values.
knownToDiffer(A, B) ==
  \/ Len(A) # Len(B)
  \/ \E i \in 1..Len(A) :
       /\ ~isValueDependent(A[i]) /\ ~isValueDependent(B[i])
       /\ A[i].v # B[i].v

\* The last step attached a valid instance N of kind K to a variable whose
\* only explicit attribute was an instance E of K, exactly one of E and N
\* being value-dependent and no argument of the two known to differ.
incomparableArrival(K) ==
  /\ last.op.kind = K
  /\ \A i \in 1..Len(pre) : pre[i].implicit \/ pre[i].kind = K
  /\ countExplicit(pre, K) = 1
  /\ ~getAttr(pre, K).implicit
  /\ isPending(getAttr(pre, K)) # isPending(storedPending(last.op))
  /\ ~knownToDiffer(getAttr(pre, K).args, storedPending(last.op).args)
  /\ ProcessDeclAttribute(<<>>, last.op).diags = <<>>

\* C12: deferred comparison -- when an instance E of a kind is present and an
\* instance N of the same kind arrives, exactly one of the two being
\* value-dependent so that they cannot be compared, no duplicate or conflict
\* diagnostic is emitted and both E and N stay attached.
C12_DeferredComparison ==
  \A K \in {"bank_width", "num_banks", "bank_bits"} :
    incomparableArrival(K) =>
      /\ \A i \in 1..Len(last.diags) :
           last.diags[i] \notin DuplicateDiags \cup ConflictDiags
      /\ attrs = addAttr(pre, storedPending(last.op))

\* The last step merged an inherited attribute of kind K whose resolved value
\* equals the resolved value of the one instance of K the declaration had.
mergedEqualValue(K) ==
  /\ last.op.kind = "merge" /\ last.op.str = K
  /\ countAttr(pre, K) = 1
  /\ isConstantExpr(getAttr(pre, K).args[1])
  /\ isConstantExpr(last.op.args[1])
  /\ getAttr(pre, K).args[1].v = last.op.args[1].v

\* C13: when the declaration carries a resolved instance of a single-integer
\* kind and the Merge routine of that kind is given an inherited instance with
\* the same resolved value, the routine returns nothing to add, no diagnostic
\* is emitted, and the merged declaration still has exactly one instance.
C13_MergeIdenticalValue ==
  \A K \in MergeKinds :
    mergedEqualValue(K) =>
      /\ mergeRoutine(pre, Attr(K, last.op.args, FALSE)).add = NoAttr
      /\ last.diags = <<>>
      /\ countAttr(attrs, K) = 1

\* The same, for max_replicates alone.
C13_MergeIdenticalMaxReplicates ==
  mergedEqualValue("max_replicates") =>
    /\ mergeRoutine(pre, Attr("max_replicates", last.op.args, FALSE)).add = NoAttr
    /\ last.diags = <<>>
    /\ countAttr(attrs, "max_replicates") = 1
C13_WitnessMaxReplicates == mergedEqualValue("max_replicates")

RepeatableKinds == {"format", "enforce_tcb", "enforce_tcb_leaf"}

\* No two entries of kind K on the declaration are identical.
noIdenticalEntries(K) ==
  \A i, j \in 1..Len(attrs) :
    (i # j /\ attrs[i].kind = K /\ attrs[j].kind = K) => attrs[i] # attrs[j]

\* C14: a new entry of a repeatable kind (format, enforce_tcb,
\* enforce_tcb_leaf) is appended unless an entry with identical key and value
\* is already present, in which case nothing happens; hence no two entries of
\* such a kind on one declaration are identical.
C14_RepeatableNoIdentical == \A K \in RepeatableKinds : noIdenticalEntries(K)

\* The same, for format alone: an equivalent format is a silent no-op.
C14_FormatNoIdentical ==
  /\ noIdenticalEntries("format")
  /\ (last.op.kind = "format"
      /\ \E i \in 1..Len(pre) :
           pre[i] = FormatAttr(normalizeName(last.op.str), last.op.args[1].v,
                               last.op.args[2].v))
     => (attrs = pre
         /\ \A i \in 1..Len(last.diags) :
              last.diags[i] = "warn_gcc_requires_variadic_function")
C14_WitnessFormat ==
  /\ last.op = ParsedAttr("format", <<Lit(1), Lit(3)>>, "__printf__")
  /\ pre = <<FormatAttr("printf", 1, 3)>>
  /\ attrs = pre

\* The diagnostics of an argument-type, argument-range or subject error.
LocalErrors ==
  {"err_attribute_requires_positive_integer",
   "err_attribute_argument_not_power_of_two", "err_bankbits_non_consecutive",
   "err_intel_fpga_memory_arg_invalid", "err_attribute_argument_type",
   "err_fpga_attribute_incorrect_variable"}

\* The last parsed attribute was rejected for such an error.
rejectedForError ==
  /\ last.op.kind \in {"fpga_memory", "fpga_register", "bank_width",
                       "num_banks", "bank_bits"}
  /\ \E i \in 1..Len(last.diags) : last.diags[i] \in LocalErrors

\* C15: when an attachment is rejected for an arity, argument-type,
\* argument-range or subject error, the declaration's attributes afterwards
\* are exactly its attributes before: nothing was added, removed or replaced.
C15_ErrorsAreLocal == rejectedForError => attrs = pre

\* The same for the argument-range errors alone.
C15_RangeErrorsAreLocal ==
  (rejectedForError
   /\ \A i \in 1..Len(last.diags) :
        last.diags[i] # "err_fpga_attribute_incorrect_variable")
  => attrs = pre

WarningDiags ==
  {"warn_attribute_ignored", "warn_attribute_type_not_supported",
   "warn_duplicate_attribute", "warn_duplicate_attribute_exact",
   "warn_gcc_requires_variadic_function", "warn_mismatched_section"}
isError(d) == ~isNote(d) /\ d \notin WarningDiags
errorCount(dg) == Cardinality({i \in 1..Len(dg) : isError(dg[i])})

\* The last step processed a parsed attribute (not an instantiation).
attemptMade == steps > 0 /\ last.op.kind \notin {"instantiate", "merge"}
\* The attempt attached its attribute / ended with nothing attached.
attemptAttached == attemptMade /\ Len(attrs) > Len(pre)
attemptNotAttached == attemptMade /\ attrs = pre

\* C16: an attempt that ends with the attribute not attached because of an
\* error emits exactly one primary (non-note) diagnostic, and an attempt that
\* attaches emits no error diagnostic.
C16_OnePrimaryDiagnostic ==
  /\ (attemptNotAttached /\ errorCount(last.diags) > 0)
       => primaryCount(last.diags) = 1
  /\ attemptAttached => errorCount(last.diags) = 0

\* The two halves, to tell the failing cases apart.
C16_RejectedOnePrimary ==
  (attemptNotAttached /\ errorCount(last.diags) > 0)
    => primaryCount(last.diags) = 1
C16_AttachedNoError == attemptAttached => errorCount(last.diags) = 0

\* The last step attached a bank_bits whose list holds a value-dependent
\* entry to a declaration that carried no num_banks.
dependentBankBitsAttached ==
  /\ last.op.kind = "bank_bits"
  /\ \E i \in 1..Len(last.op.args) : isValueDependent(last.op.args[i])
  /\ ~hasAttr(pre, "num_banks")
  /\ countAttr(attrs, "bank_bits") = countAttr(pre, "bank_bits") + 1

MemorySubKinds == {"bank_width", "num_banks", "bank_bits", "max_replicates"}
carriesWrittenSubAttr ==
  \E i \in 1..Len(attrs) : attrs[i].kind \in MemorySubKinds /\ ~attrs[i].implicit

\* C18: in every reachable state, a declaration that carries a written FPGA
\* memory sub-attribute also carries exactly one fpga_memory attribute
\* (implicit or explicit), never zero and never two.
C18_DefaultMemory ==
  carriesWrittenSubAttr => countAttr(attrs, "fpga_memory") = 1

\* The same on declarations the subject check accepts.
C18_DefaultMemoryValidSubject ==
  (carriesWrittenSubAttr /\ ~(SYCLIsDevice /\ CheckValidFPGAMemoryAttributesVar))
    => countAttr(attrs, "fpga_memory") = 1

\* The last parsed attribute was invalid or of the ignored kind.
skippedAttr == attemptMade /\ (last.op.invalid \/ last.op.kind = "IgnoredAttribute")
\* The last parsed attribute was unknown, or exists neither for the target
\* nor, when compiling SYCL device code, for the auxiliary target.
gatedAttr ==
  /\ attemptMade /\ ~skippedAttr
  /\ \/ last.op.kind = "UnknownAttribute"
     \/ ~(last.op.inTarget \/ (lang = "SYCLDevice" /\ last.op.inAux))

C19_WitnessSkipped ==
  /\ skippedAttr /\ last.op.kind = "section" /\ last.op.invalid
  /\ handleDeclAttribute(pre, last.op).attrs # pre
C19_WitnessAux ==
  /\ attemptMade /\ ~skippedAttr /\ ~gatedAttr
  /\ ~last.op.inTarget /\ last.op.inAux /\ attrs # pre

StringKinds == {"fpga_memory", "visibility", "section"}

\* The last parsed attribute had its string argument written as an
\* identifier / as something that is neither an identifier nor a string
\* literal.
identifierArgument ==
  attemptMade /\ last.op.kind \in StringKinds /\ isArgIdent(last.op)
otherArgument ==
  /\ attemptMade /\ last.op.kind \in StringKinds
  /\ ~isArgIdent(last.op) /\ ~isStringLiteral(last.op)

C20_WitnessOther ==
  /\ otherArgument
  /\ last.op.kind = "fpga_memory" /\ last.op.args = <<WideString>>
  /\ stringHandler(pre, "fpga_memory", last.op.str).attrs # pre

\* The argument E is resolved: a constant expression or an integer held by
\* the attribute.
isResolved(E) == E.k \in {"ce", "lit", "uint"}

\* The range constraint of kind K on a resolved argument value.
inRange(K, v) ==
  CASE K = "max_global_work_dim" -> 0 <= v /\ v <= 3
    [] K = "force_pow2_depth" -> v \in {0, 1}
    [] K = "esimd_vectorize" -> v \in {8, 16, 32}
    [] K \in {"max_replicates", "num_simd_work_items", "reqd_work_group_size",
              "opencl_reqd_work_group_size", "max_work_group_size"} -> v >= 1
    [] OTHER -> TRUE

C21_WitnessInstantiated ==
  /\ last.op.kind = "instantiate"
  /\ hasAttr(pre, "max_global_work_dim")
  /\ isPending(getAttr(pre, "max_global_work_dim"))
  /\ last.diags = <<"err_attribute_argument_out_of_range">>
  /\ ~hasAttr(attrs, "max_global_work_dim")

\* D carries a max_global_work_dim whose resolved value is 0.
zeroWorkDim(D) ==
  \E i \in 1..Len(D) :
    /\ D[i].kind = "max_global_work_dim"
    /\ isResolved(D[i].args[1]) /\ D[i].args[1].v = 0
\* Dims are resolved and one of them differs from 1.
nonUniformDims(Dims) ==
  /\ \A j \in 1..Len(Dims) : isResolved(Dims[j])
  /\ \E j \in 1..Len(Dims) : Dims[j].v # 1
nonUniformAttr(D, K) ==
  \E i \in 1..Len(D) : D[i].kind = K /\ nonUniformDims(D[i].args)
\* The last step processed a written attribute of kind K on a declaration
\* none of whose attributes awaits instantiation.
resolvedArrival(K) ==
  attemptMade /\ last.op.kind = K /\ ~hasPending(pre)

\* The last step merged an inherited attribute of kind K into a declaration
\* none of whose attributes awaits instantiation.
inheritedArrival(K) ==
  last.op.kind = "merge" /\ last.op.str = K /\ ~hasPending(pre)

\* C22: max_global_work_dim(0) is never attached together with a
\* max_work_group_size whose resolved dimensions are not all 1; when one of
\* the two arrives with resolved arguments on a declaration that carries the
\* other, written or (for max_work_group_size) inherited, the arrival is
\* diagnosed and nothing is attached.
C22_ZeroImpliesUniformMax ==
  /\ ~(zeroWorkDim(attrs) /\ nonUniformAttr(attrs, "max_work_group_size"))
  /\ (/\ resolvedArrival("max_work_group_size")
      /\ nonUniformDims(last.op.args) /\ zeroWorkDim(pre))
       => (attrs = pre /\ last.diags # <<>>)
  /\ (/\ resolvedArrival("max_global_work_dim")
      /\ last.op.args = <<Lit(0)>>
      /\ nonUniformAttr(pre, "max_work_group_size"))
       => (attrs = pre /\ last.diags # <<>>)
  /\ (/\ inheritedArrival("max_work_group_size")
      /\ nonUniformDims(last.op.args) /\ zeroWorkDim(pre))
       => (attrs = pre /\ last.diags # <<>>)
C22_WitnessMaxSecond ==
  /\ lang # "OpenCL"
  /\ resolvedArrival("max_work_group_size")
  /\ last.op.args = <<Lit(4), Lit(4), Lit(4)>>
  /\ zeroWorkDim(pre)
  /\ last.diags = <<"err_sycl_x_y_z_arguments_must_be_one">>
  /\ attrs = pre
C22_WitnessDimSecond ==
  /\ lang # "OpenCL"
  /\ resolvedArrival("max_global_work_dim")
  /\ last.op.args = <<Lit(0)>>
  /\ nonUniformAttr(pre, "max_work_group_size")
  /\ ~hasAttr(pre, "max_global_work_dim")
  /\ last.diags = <<"err_sycl_x_y_z_arguments_must_be_one">>
  /\ attrs = pre
C22_WitnessInherited ==
  /\ inheritedArrival("max_work_group_size")
  /\ nonUniformDims(last.op.args) /\ zeroWorkDim(pre)
  /\ last.diags = <<"err_sycl_x_y_z_arguments_must_be_one">>
  /\ attrs = pre

\* The specified dimensions of Dims are resolved and one of them differs
\* from 1.
nonUniformSpecified(Dims) ==
  /\ \A j \in 1..Len(Dims) : isNull(Dims[j]) \/ isResolved(Dims[j])
  /\ \E j \in 1..Len(Dims) : ~isNull(Dims[j]) /\ Dims[j].v # 1
nonUniformReqd(D) ==
  \E i \in 1..Len(D) :
    D[i].kind = "reqd_work_group_size" /\ nonUniformSpecified(D[i].args)

\* C23: max_global_work_dim(0) is never attached together with a
\* reqd_work_group_size that has a specified resolved dimension other than 1,
\* whichever of the two arrives second and whether it is written on the
\* declaration or inherited.
C23_ZeroImpliesUniformReqd ==
  ~(zeroWorkDim(attrs) /\ nonUniformReqd(attrs))
\* The inherited reqd_work_group_size is rejected by the Merge routine.
C23_InheritedRejected ==
  (/\ inheritedArrival("reqd_work_group_size")
   /\ nonUniformSpecified(last.op.args) /\ zeroWorkDim(pre))
    => (attrs = pre /\ last.diags # <<>>)
C23_WitnessInherited ==
  /\ inheritedArrival("reqd_work_group_size")
  /\ nonUniformSpecified(last.op.args) /\ zeroWorkDim(pre)
  /\ last.diags = <<"err_sycl_x_y_z_arguments_must_be_one">>
  /\ attrs = pre
\* The written reqd_work_group_size is diagnosed and attached all the same.
C23_WitnessWritten ==
  /\ resolvedArrival("reqd_work_group_size")
  /\ zeroWorkDim(pre) /\ ~nonUniformReqd(pre)
  /\ last.diags = <<"err_sycl_x_y_z_arguments_must_be_one">>
  /\ zeroWorkDim(attrs) /\ nonUniformReqd(attrs)

\* Dims are three resolved dimensions.
threeResolved(Dims) == \A j \in 1..3 : isResolved(Dims[j])
\* A dimension of the required size R exceeds the same dimension of the
\* maximum size M.
exceedsSamePosition(R, M) == \E j \in 1..3 : R[j].v > M[j].v
\* D carries a required and a maximum work-group size, both with three
\* resolved dimensions, the required one exceeding the maximum in a position.
requiredExceedsMaximum(D) ==
  \E i, k \in 1..Len(D) :
    /\ D[i].kind = "reqd_work_group_size" /\ threeResolved(D[i].args)
    /\ D[k].kind = "max_work_group_size" /\ threeResolved(D[k].args)
    /\ exceedsSamePosition(D[i].args, D[k].args)

\* C24: in SYCL mode, device or host, a three-argument reqd_work_group_size
\* and a max_work_group_size with resolved arguments are never both attached
\* with a required dimension exceeding the maximum of the same position.
C24_RequiredWithinMaximum == ~requiredExceedsMaximum(attrs)
\* The same statement for device compilation alone.
C24_DeviceRequiredWithinMaximum ==
  lang = "SYCLDevice" => ~requiredExceedsMaximum(attrs)
\* Host compilation: reqd_work_group_size(2,2,16) is attached to a function
\* that carries max_work_group_size(16,4,4).
C24_WitnessHost ==
  /\ lang = "SYCLHost"
  /\ resolvedArrival("reqd_work_group_size")
  /\ last.op.args = <<Lit(2), Lit(2), Lit(16)>>
  /\ hasAttr(pre, "max_work_group_size")
  /\ getAttr(pre, "max_work_group_size").args
       = <<ConstantExpr(16), ConstantExpr(4), ConstantExpr(4)>>
  /\ last.diags = <<>>
  /\ requiredExceedsMaximum(attrs)
C24_WitnessDevice ==
  /\ lang = "SYCLDevice"
  /\ resolvedArrival("reqd_work_group_size")
  /\ last.op.args = <<Lit(2), Lit(2), Lit(16)>>
  /\ hasAttr(pre, "max_work_group_size")
  /\ getAttr(pre, "max_work_group_size").args
       = <<ConstantExpr(16), ConstantExpr(4), ConstantExpr(4)>>
  /\ last.diags = <<"err_conflicting_sycl_function_attributes",
                    "note_conflicting_attribute">>
  /\ attrs = pre

\* Every attached bank_bits has as many entries as the resolved value of
\* every attached num_banks requires.
banksConsistent(D) ==
  \A i, k \in 1..Len(D) :
    (/\ D[i].kind = "num_banks" /\ isResolved(D[i].args[1])
     /\ D[k].kind = "bank_bits")
      => ceilLogBase2(D[i].args[1].v) = Len(D[k].args)

C25_WitnessBankBitsSecond ==
  /\ resolvedArrival("bank_bits")
  /\ hasAttr(pre, "num_banks") /\ ~getAttr(pre, "num_banks").implicit
  /\ ~hasAttr(pre, "bank_bits")
  /\ hasAttr(attrs, "bank_bits")
  /\ banksConsistent(attrs)

\* Vals steps by +1 throughout or by -1 throughout.
RECURSIVE stepsBy(_, _)
stepsBy(Vals, d) ==
  Len(Vals) < 2 \/ (Vals[2].v = Vals[1].v + d /\ stepsBy(Tail(Vals), d))
consecutive(Vals) == stepsBy(Vals, 1) \/ stepsBy(Vals, -1)
\* The last step processed a written bank_bits of two or more non-negative
\* literals.
literalBankBits ==
  /\ attemptMade /\ last.op.kind = "bank_bits"
  /\ Len(last.op.args) >= 2
  /\ \A i \in 1..Len(last.op.args) :
       last.op.args[i].k = "lit" /\ last.op.args[i].v >= 0

\* C26: a bank_bits list of two or more literals is attached only if its
\* entries are consecutive, ascending throughout or descending throughout;
\* any other list is rejected with the single diagnostic
\* err_bankbits_non_consecutive, attaches no bank_bits and synthesizes no
\* num_banks or fpga_memory.
C26_ConsecutiveOnly ==
  literalBankBits =>
    /\ attemptAttached => consecutive(last.op.args)
    /\ ~consecutive(last.op.args) =>
         (attrs = pre /\ last.diags = <<"err_bankbits_non_consecutive">>)
\* The same with one error diagnostic, possibly after a warning.
C26_RejectedWithOneError ==
  literalBankBits =>
    /\ attemptAttached => consecutive(last.op.args)
    /\ ~consecutive(last.op.args) =>
         /\ attrs = pre
         /\ last.diags[Len(last.diags)] = "err_bankbits_non_consecutive"
         /\ errorCount(last.diags) = 1
C26_WitnessRejected ==
  /\ literalBankBits
  /\ last.op.args = <<Lit(1), Lit(1)>>
  /\ last.diags = <<"err_bankbits_non_consecutive">>
  /\ attrs = pre
C26_WitnessAccepted ==
  /\ literalBankBits
  /\ last.op.args = <<Lit(2), Lit(1)>>
  /\ pre = <<>>
  /\ countAttr(attrs, "bank_bits") = 1
\* A second bank_bits that is not consecutive: the duplicate warning comes
\* with the rejection.
C26_WitnessTwoDiagnostics ==
  /\ literalBankBits /\ ~consecutive(last.op.args)
  /\ last.diags = <<"warn_duplicate_attribute_exact", "err_bankbits_non_consecutive">>
  /\ attrs = pre

\* The kinds among always_inline, minsize and optnone that D carries.
optimizationSet(D) == {K \in OptimizationKinds : hasAttr(D, K)}
\* The last step brought an attribute of kind K, written or inherited.
arrived(K) ==
  \/ (attemptMade /\ last.op.kind = K)
  \/ (last.op.kind = "merge" /\ last.op.str = K)

\* C27: optnone is never attached together with always_inline or minsize,
\* each of the three kinds has at most one instance, an arriving optnone
\* leaves {optnone} as the set of the three kinds, and once optnone is
\* attached the set stays {optnone} whatever arrives.
C27_OptnoneExcludes ==
  /\ hasAttr(attrs, "optnone") => optimizationSet(attrs) = {"optnone"}
  /\ \A K \in OptimizationKinds : countAttr(attrs, K) <= 1
  /\ arrived("optnone") => optimizationSet(attrs) = {"optnone"}
  /\ (steps > 0 /\ hasAttr(pre, "optnone")) => attrs = pre
\* optnone arrives on a function that carries always_inline and minsize.
C27_WitnessOptnoneLast ==
  /\ arrived("optnone")
  /\ optimizationSet(pre) = {"always_inline", "minsize"}
  /\ last.diags = <<"warn_attribute_ignored", "note_conflicting_attribute",
                    "warn_attribute_ignored", "note_conflicting_attribute">>
  /\ attrs = <<Attr("optnone", <<>>, FALSE)>>
\* always_inline arrives on a function that carries optnone.
C27_WitnessOptnoneFirst ==
  /\ arrived("always_inline")
  /\ hasAttr(pre, "optnone")
  /\ last.diags = <<"warn_attribute_ignored", "note_conflicting_attribute">>
  /\ attrs = pre

\* The last step wrote kind K with the string literal X on a declaration that
\* carries the other membership kind for X.
tcbConflict(K, Other, X) ==
  /\ attemptMade /\ last.op.kind = K /\ last.op.args = <<>> /\ last.op.str = X
  /\ findEnforceTCBAttrByName(pre, Other, X)

\* C28: when enforce_tcb(X) and enforce_tcb_leaf(X) meet on a declaration, in
\* either arrival order, one err_tcb_conflicting_attributes is emitted and the
\* declaration is left with the leaf membership of X and without a regular
\* membership of X.
C28_LeafKept ==
  \A X \in TCBNames :
    (\/ tcbConflict("enforce_tcb", "enforce_tcb_leaf", X)
     \/ tcbConflict("enforce_tcb_leaf", "enforce_tcb", X))
      => /\ last.diags = <<"err_tcb_conflicting_attributes">>
         /\ findEnforceTCBAttrByName(attrs, "enforce_tcb_leaf", X)
         /\ ~findEnforceTCBAttrByName(attrs, "enforce_tcb", X)
\* The same when the regular membership arrives second.
C28_RegularSecond ==
  \A X \in TCBNames :
    tcbConflict("enforce_tcb", "enforce_tcb_leaf", X)
      => /\ last.diags = <<"err_tcb_conflicting_attributes">>
         /\ findEnforceTCBAttrByName(attrs, "enforce_tcb_leaf", X)
         /\ ~findEnforceTCBAttrByName(attrs, "enforce_tcb", X)
\* The leaf membership arrives second: it is diagnosed and not attached.
C28_WitnessLeafSecond ==
  /\ tcbConflict("enforce_tcb_leaf", "enforce_tcb", "x")
  /\ last.diags = <<"err_tcb_conflicting_attributes">>
  /\ ~findEnforceTCBAttrByName(attrs, "enforce_tcb_leaf", "x")
  /\ ~findEnforceTCBAttrByName(attrs, "enforce_tcb", "x")
C28_WitnessRegularSecond ==
  /\ tcbConflict("enforce_tcb", "enforce_tcb_leaf", "x")
  /\ last.diags = <<"err_tcb_conflicting_attributes">>
  /\ findEnforceTCBAttrByName(attrs, "enforce_tcb_leaf", "x")

\* The last step processed an attribute list.
listProcessed == last.op.kind = "list"
\* Number of occurrences of diagnostic d in dg.
diagCount(dg, d) == Cardinality({i \in 1..Len(dg) : dg[i] = d})
\* The attributes the list leaves when its attributes are processed one by
\* one, before the weakref check.
afterLoop == processAll(pre, last.op.args).attrs
weakrefLeftAlone == hasAttr(afterLoop, "weakref") /\ ~hasAttr(afterLoop, "alias")

\* C29: when ProcessDeclAttributeList returns, the declaration carries weakref
\* only if it carries alias; a weakref left without alias by the list is
\* removed with exactly one err_attribute_weakref_without_alias, and every
\* other attribute attached from the list stays attached.
C29_WeakRefRequiresAlias ==
  listProcessed =>
    /\ hasAttr(attrs, "weakref") => hasAttr(attrs, "alias")
    /\ weakrefLeftAlone =>
         /\ diagCount(last.diags, "err_attribute_weakref_without_alias") = 1
         /\ attrs = dropAttr(afterLoop, "weakref")
    /\ ~weakrefLeftAlone =>
         /\ diagCount(last.diags, "err_attribute_weakref_without_alias") = 0
         /\ attrs = afterLoop
C29_Witness ==
  /\ listProcessed
  /\ last.op.args = <<ParsedAttr("section", <<>>, "A"),
                      ParsedAttr("weakref", <<NullExpr>>, "")>>
  /\ last.diags = <<"err_attribute_weakref_without_alias">>
  /\ hasAttr(attrs, "section") /\ ~hasAttr(attrs, "weakref")
C29_WitnessWithAlias ==
  /\ listProcessed
  /\ last.op.args = <<ParsedAttr("weakref", <<NullExpr>>, ""),
                      ParsedAttr("alias", <<>>, "t")>>
  /\ last.diags = <<>>
  /\ hasAttr(attrs, "weakref") /\ hasAttr(attrs, "alias")

\* The last step attached a bank_bits and created the implicit num_banks.
numBanksSynthesized ==
  /\ attemptMade /\ last.op.kind = "bank_bits"
  /\ ~hasAttr(pre, "num_banks")
  /\ hasAttr(attrs, "num_banks") /\ getAttr(attrs, "num_banks").implicit
  /\ hasAttr(attrs, "bank_bits")

\* C30: for a bank_bits list of n entries, 1 <= n <= 32, the literal of the
\* implicit num_banks is a positive power of two whose base-2 logarithm is n:
\* the shift wraps neither to 0 nor to a negative value.
C30_ShiftWidth ==
  numBanksSynthesized =>
    LET v == getAttr(attrs, "num_banks").args[1].v
    IN /\ v > 0 /\ isPowerOf2(v)
       /\ ceilLogBase2(v) = Len(last.op.args)
\* The same for lists of fewer than IntWidth - 1 entries.
C30_ShiftExactBelowWidth ==
  (numBanksSynthesized /\ Len(last.op.args) < IntWidth - 1) =>
    LET v == getAttr(attrs, "num_banks").args[1].v
    IN /\ v > 0 /\ isPowerOf2(v)
       /\ ceilLogBase2(v) = Len(last.op.args)
\* 32 entries: the implicit num_banks holds 1.
C30_WitnessWrapped ==
  /\ numBanksSynthesized
  /\ Len(last.op.args) = IntWidth
  /\ getAttr(attrs, "num_banks").args[1].v = 1
  /\ last.diags = <<>>
\* 31 entries: the literal of type int is negative.
C30_WitnessNegative ==
  /\ numBanksSynthesized
  /\ Len(last.op.args) = IntWidth - 1
  /\ getAttr(attrs, "num_banks").args[1].v = IntMin
C30_WitnessExact ==
  /\ numBanksSynthesized
  /\ Len(last.op.args) = 30
  /\ getAttr(attrs, "num_banks").args[1].v = Pow2(30)
====
